---- MODULE Spec2Model ----
(***************************************************************************)
(* State-synchronisation logic of the counter app:                          *)
(*   - Counter        the component of src/components/Counter.tsx           *)
(*   - useCounter     the hook of src/hooks/index.ts over counterReducer    *)
(*   - AppProvider    the context provider of the providers file over       *)
(*                    appReducer                                            *)
(*   - useTheme       the hook of src/hooks/index.ts over useLocalStorage   *)
(*                    and the prefers-color-scheme media query              *)
(*   - useMediaQuery  the hook of src/theme/index.tsx                       *)
(*   - localStorageAdapter  createStorageAdapter(localStorage) of           *)
(*                    src/utils/index.ts                                    *)
(* One of them is mounted at a time (variable mounted); the state of the    *)
(* others stays at its construction value.                                  *)
(***************************************************************************)
EXTENDS Integers, Sequences, FiniteSets, TLC

VARIABLES
    mounted,        \* which root is rendered: "Counter", "useCounter", "AppProvider", "useTheme",
                    \* "useMediaQuery", "localStorageAdapter"
    clock,          \* the ambient clock read by new Date()
    uuids,          \* how many identifiers crypto.randomUUID() has handed out
    props,          \* Counter: the props it was rendered with
    count,          \* Counter: useState<number>(initial)
    dom,            \* Counter: what the last render put on screen
    config,         \* useCounter: the merged CounterConfig
    counterState,   \* useCounter: the useReducer state (all dispatched actions applied)
    rendered,       \* useCounter: state.value of the last render, as the callbacks captured it
    returned,       \* useCounter: count, isAtMin and isAtMax as the last render returned them
    counterStorage, \* useCounter: value, isLoading and error of useLocalStorage('counter-value')
    appState,       \* AppProvider: the useReducer state
    localStorage,   \* window.localStorage: the item under each key
    prefersDark,    \* whether the (prefers-color-scheme: dark) media query matches
    themeStorage,   \* useTheme: value, isLoading and error of useLocalStorage('theme-mode')
    systemTheme,    \* useTheme: useState seeded from the media query
    listeners,      \* useTheme: change listeners registered on the media query
    effectsPending, \* useTheme: the effects of the first render have not run yet
    themeRendered,  \* useTheme: what the last render read and returned
    matches,        \* useMediaQuery: useState<boolean>(false)
    got,            \* localStorageAdapter: what the last getItem of each key
                    \* returned (<<>> is null)
    torn,           \* the root has been unmounted
    mounts,         \* how many times the root has been mounted
    lsState,        \* useLocalStorage: value, isLoading and error of a numeric key
    lsClosure,      \* useLocalStorage: storedValue as the current setValue captured it
    lsCalls,        \* useLocalStorage: the updaters passed to setValue since the last render
    obs,            \* the persisting effect and its useLocalStorage, in useCounter or AppProvider
    peer,           \* a second useTheme instance (useBreakpoint under the ThemeProvider)
    boundary,       \* ErrorBoundary: its state, props and previousResetKeys
    retry,          \* AsyncErrorBoundary: its state, props, retryTimeout and the handleRetry calls in flight
    notifier,       \* GlobalErrorHandler: errorListeners and the notification in progress
    asyncHook       \* useAsync: its state cell and the execute invocations in flight

vars == <<mounted, clock, uuids, props, count, dom, config, counterState, rendered, returned,
          counterStorage, appState, localStorage, prefersDark, themeStorage, systemTheme, listeners,
          effectsPending, themeRendered, matches, got, torn, mounts,
          lsState, lsClosure, lsCalls, obs, peer, boundary, retry, notifier, asyncHook>>

counterVars == <<props, count, dom>>
hookVars == <<config, counterState, rendered, returned, counterStorage>>
themeVars == <<localStorage, prefersDark, themeStorage, systemTheme, listeners,
               effectsPending, themeRendered>>
lifeVars == <<matches, got, torn, mounts>>
updaterVars == <<lsState, lsClosure, lsCalls>>
laterVars == <<updaterVars, obs, peer, boundary, retry, notifier, asyncHook>>

----------------------------------------------------------------------------
(* Bounds of the model                                                      *)

MaxHist == 2        \* dispatches per session (history entries)
MaxClock == 1       \* ticks of the ambient clock
MaxConfigValue == 1 \* largest minValue / maxValue / initialValue of a configuration
MaxStep == 2        \* largest config.step
MaxInitial == 3     \* largest initial prop of Counter
MaxCount == 14      \* increment clicks stop once count reaches this
MaxErrors == 1      \* COUNTER_SET_ERROR dispatches that carry an error
MaxScenarioSteps == 6 \* dispatches of the session that starts at 5 (five decrements and one more)
MaxMounts == 2      \* mounts of a root (the first one and remounts)
MaxCalls == 2       \* setValue calls between two renders
MaxUpdated == 6     \* largest value a functional update may produce
MaxDispatches == 2  \* dispatches observed by the persisting effect
MaxWrites == 4      \* setItem calls of one effect chain
MaxKey == 2         \* distinct values of a reset key
MaxKeys == 2        \* length of resetKeys
MaxRetries == 2     \* largest maxRetries prop
MaxInvocations == 3 \* handleRetry invocations of one boundary
MaxListenerIds == 2 \* distinct listener functions
MaxListeners == 3   \* registrations held by the error handler
MaxHandled == 1     \* errors handled in a session
MaxExecutes == 4    \* execute invocations of one useAsync
MaxStored == 2      \* largest number found under 'counter-value' when the app starts

ConfigValues == (0 - 1)..MaxConfigValue
\* arguments of setValue(n): from below every minValue to above every maxValue
Inputs == (0 - 2)..(MaxConfigValue + 1)
InitialProps == (0 - 2)..MaxInitial

----------------------------------------------------------------------------
(* Math.max / Math.min on integers                                          *)

MathMax(a, b) == IF a >= b THEN a ELSE b

MathMin(a, b) == IF a <= b THEN a ELSE b

CounterActionType == {"INCREMENT", "DECREMENT", "RESET", "SET_VALUE"}

\* Number.MAX_SAFE_INTEGER (2^53 - 1), written as the largest integer the
\* model checker represents: above every value a run of the model reaches
MAX_SAFE_INTEGER == 2147483647

\* crypto.randomUUID(): an identifier never handed out before. No code reads
\* an id, so the identifiers are named by the order they are drawn in.
randomUUID == uuids + 1

\* payload of an action that carries none (action.payload is undefined)
NoPayload == <<>>

\* action.payload ?? 0
PayloadOrZero(action) == IF action.payload = NoPayload THEN 0 ELSE action.payload[1]

----------------------------------------------------------------------------
(* counterReducer (hooks)                                                   *)

\* createHistoryEntry with previousValue and newValue stored in each other's field
createHistoryEntry_swapped(actionType, previousValue, newValue, uuid, now) ==
    [id |-> uuid,
     action |-> actionType,
     previousValue |-> newValue,
     newValue |-> previousValue,
     timestamp |-> now,
     createdAt |-> now,
     updatedAt |-> now]

createHistoryEntry(actionType, previousValue, newValue, uuid, now) ==
    [id |-> uuid,
     action |-> actionType,
     previousValue |-> previousValue,
     newValue |-> newValue,
     timestamp |-> now,
     createdAt |-> now,
     updatedAt |-> now]

reduceIncrement(state, uuid, now) ==
    LET incrementedValue == state.value + 1 IN
    [state EXCEPT !.value = incrementedValue,
                  !.history = Append(state.history,
                      createHistoryEntry("INCREMENT", state.value, incrementedValue, uuid, now))]

reduceDecrement(state, uuid, now) ==
    LET decrementedValue == MathMax(0, state.value - 1) IN
    [state EXCEPT !.value = decrementedValue,
                  !.history = Append(state.history,
                      createHistoryEntry("DECREMENT", state.value, decrementedValue, uuid, now))]

\* RESET that starts the history over instead of appending to it
reduceReset_clearsHistory(state, uuid, now) ==
    [state EXCEPT !.value = 0,
                  !.history = <<createHistoryEntry("RESET", state.value, 0, uuid, now)>>]

\* RESET that goes back to the value the session started with
reduceReset_toInitial(state, uuid, now) ==
    LET target == IF state.history = <<>> THEN state.value
                  ELSE state.history[1].previousValue IN
    [state EXCEPT !.value = target,
                  !.history = Append(state.history,
                      createHistoryEntry("RESET", state.value, target, uuid, now))]

reduceReset(state, uuid, now) ==
    [state EXCEPT !.value = 0,
                  !.history = Append(state.history,
                      createHistoryEntry("RESET", state.value, 0, uuid, now))]

reduceSetValue(state, action, uuid, now) ==
    LET newValue == PayloadOrZero(action) IN
    [state EXCEPT !.value = newValue,
                  !.history = Append(state.history,
                      createHistoryEntry("SET_VALUE", state.value, newValue, uuid, now))]

\* a reducer that reports an unrecognized action in the error field
counterReducer_flagsUnknown(state, action, uuid, now) ==
    CASE action.type = "INCREMENT" -> reduceIncrement(state, uuid, now)
      [] action.type = "DECREMENT" -> reduceDecrement(state, uuid, now)
      [] action.type = "RESET"     -> reduceReset(state, uuid, now)
      [] action.type = "SET_VALUE" -> reduceSetValue(state, action, uuid, now)
      [] OTHER                     -> [state EXCEPT !.error = "Unknown action"]

\* uuid and now are the ambient inputs the reducer reads
\* (crypto.randomUUID(), new Date()).
counterReducer(state, action, uuid, now) ==
    CASE action.type = "INCREMENT" -> reduceIncrement(state, uuid, now)
      [] action.type = "DECREMENT" -> reduceDecrement(state, uuid, now)
      [] action.type = "RESET"     -> reduceReset(state, uuid, now)
      [] action.type = "SET_VALUE" -> reduceSetValue(state, action, uuid, now)
      [] OTHER                     -> state

----------------------------------------------------------------------------
(* useLocalStorage (src/hooks/index.ts) and the JSON texts it stores          *)

\* ThemeMode of src/types/index.ts
LIGHT == "light"
DARK == "dark"
SYSTEM == "system"
ThemeMode == {LIGHT, DARK, SYSTEM}

StorageKeys == {"theme-mode", "counter-value"}

\* the numbers that are written as JSON text
JsonNumbers == (0 - 2)..(MaxConfigValue + MaxScenarioSteps + 1)

\* A localStorage text is the sequence of its pieces; the JSON text of a
\* string is the string between two quotes.
Quote == "\""
\* a serializer that writes a string as it is, without the quotes
JSON_stringify_raw(v) == <<v>>

JSON_stringify(v) == <<Quote, v, Quote>>
\* the JSON text of a number is its decimal numeral
JSON_stringifyNumber(n) == <<ToString(n)>>
JSON_parses(text) ==
    \/ Len(text) = 3 /\ text[1] = Quote /\ text[3] = Quote
    \/ Len(text) = 1 /\ text[1] \in {ToString(n) : n \in JsonNumbers}
JSON_parse(text) ==
    IF Len(text) = 3 THEN text[2]
    ELSE CHOOSE n \in JsonNumbers : ToString(n) = text[1]

\* getItem returns null for a key that was never written
NullItem == [present |-> FALSE, text |-> <<>>]
ItemOf(text) == [present |-> TRUE, text |-> text]
\* if (item): null and the empty text are falsy
Truthy(item) == item.present /\ item.text # <<>>

\* what the profile may hold under a key when the app starts: nothing, the
\* empty text, a text that is not JSON, or the JSON text of a string
StoredTexts == {<<>>, <<"dark">>} \cup {JSON_stringify(v) : v \in ThemeMode \cup {"blue"}}
StorageItems == {NullItem} \cup {ItemOf(t) : t \in StoredTexts}

\* the three useState cells of useLocalStorage(key, initialValue)
useLocalStorageInitial(initialValue) ==
    [value |-> initialValue, isLoading |-> TRUE, error |-> "null"]

\* a read that never takes the stored value
readStoredValue_keepsDefault(st, item) ==
    [st EXCEPT !.error = "null", !.isLoading = FALSE]

\* the effect that initializes the value from localStorage
readStoredValue(st, item) ==
    IF Truthy(item) /\ ~JSON_parses(item.text)
       THEN [st EXCEPT !.error = "Failed to read from localStorage: SyntaxError",
                       !.isLoading = FALSE]
       ELSE [st EXCEPT !.value = IF Truthy(item) THEN JSON_parse(item.text) ELSE st.value,
                       !.error = "null",
                       !.isLoading = FALSE]

\* a setValue that rolls the value back when the write fails
setStoredValue_rollsBack(st, value, written) ==
    [st EXCEPT !.value = IF written THEN value ELSE st.value,
               !.error = IF written THEN "null"
                         ELSE "Failed to write to localStorage: QuotaExceededError"]

\* setValue(value): the state advances before setItem is called, so a
\* throwing setItem leaves the new value in memory and the old item in storage
setStoredValue(st, value, written) ==
    [st EXCEPT !.value = value,
               !.error = IF written THEN "null"
                         ELSE "Failed to write to localStorage: QuotaExceededError"]

----------------------------------------------------------------------------
(* useCounter                                                               *)

defaultConfig ==
    [initialValue |-> 0, minValue |-> 0, maxValue |-> MAX_SAFE_INTEGER, step |-> 1,
     enableHistory |-> TRUE, enablePersistence |-> FALSE]

\* { ...defaultConfig, ...initialConfig }: no initialConfig, or one that sets
\* initialValue, minValue, maxValue and step
Configs ==
    {defaultConfig} \cup
    {c \in [initialValue : ConfigValues, minValue : ConfigValues, maxValue : ConfigValues,
            step : 1..MaxStep, enableHistory : {TRUE}, enablePersistence : {FALSE}] :
        c.minValue <= c.maxValue}

initialState(cfg) ==
    [value |-> cfg.initialValue, isLoading |-> FALSE, error |-> "null", history |-> <<>>]

\* setValue that dispatches its argument unclamped
clampedValue_unclamped(cfg, value) == value

\* Math.max(config.minValue, Math.min(config.maxValue, value))
clampedValue(cfg, value) == MathMax(cfg.minValue, MathMin(cfg.maxValue, value))

\* an increment guard that lets the call through at the bound
incrementAllowed_atBound(seen, cfg) == seen <= cfg.maxValue

\* the guards of the increment / decrement callbacks, over the captured state.value
incrementAllowed(seen, cfg) == seen < cfg.maxValue

decrementAllowed(seen, cfg) == seen > cfg.minValue

\* isAtMin with the comparison made strict
isAtMin_strict == rendered < config.minValue

isAtMin == rendered <= config.minValue

isAtMax == rendered >= config.maxValue

\* the configuration of the session that starts at 5 with minValue 0
scenarioConfig == [defaultConfig EXCEPT !.initialValue = 5]

\* how many dispatches a session is followed for
HistLimit == IF config = scenarioConfig THEN MaxScenarioSteps ELSE MaxHist

\* dispatch(action): the reducer runs on the state left by the dispatches
\* before it; the callbacks keep seeing the rendered value until Render.
dispatch(action) ==
    /\ Len(counterState.history) < HistLimit
    /\ counterState' = counterReducer(counterState, action, randomUUID, clock)
    /\ uuids' = IF action.type \in CounterActionType THEN uuids + 1 ELSE uuids

increment ==
    /\ mounted = "useCounter"
    /\ ~torn
    /\ IF incrementAllowed(rendered, config)
          THEN dispatch([type |-> "INCREMENT", payload |-> NoPayload])
          ELSE UNCHANGED <<counterState, uuids>>
    /\ UNCHANGED <<mounted, clock, counterVars, config, rendered, returned, counterStorage,
                   appState, themeVars, lifeVars,
                   laterVars>>

decrement ==
    /\ mounted = "useCounter"
    /\ ~torn
    /\ IF decrementAllowed(rendered, config)
          THEN dispatch([type |-> "DECREMENT", payload |-> NoPayload])
          ELSE UNCHANGED <<counterState, uuids>>
    /\ UNCHANGED <<mounted, clock, counterVars, config, rendered, returned, counterStorage,
                   appState, themeVars, lifeVars,
                   laterVars>>

reset ==
    /\ mounted = "useCounter"
    /\ ~torn
    /\ dispatch([type |-> "RESET", payload |-> NoPayload])
    /\ UNCHANGED <<mounted, clock, counterVars, config, rendered, returned, counterStorage,
                   appState, themeVars, lifeVars,
                   laterVars>>

setValue(value) ==
    /\ mounted = "useCounter"
    /\ ~torn
    /\ dispatch([type |-> "SET_VALUE", payload |-> <<clampedValue(config, value)>>])
    /\ UNCHANGED <<mounted, clock, counterVars, config, rendered, returned, counterStorage,
                   appState, themeVars, lifeVars,
                   laterVars>>

setValueAny == \E value \in Inputs : setValue(value)

\* a persistence effect that does not look at the configuration
persistEnabled_always(cfg) == TRUE

\* if (config.enablePersistence)
persistEnabled(cfg) == cfg.enablePersistence

\* a persistValue that advances the value in memory and skips the write
persistValue_memoryOnly(p, value, written) ==
    [st |-> [p.st EXCEPT !.value = value, !.error = "null"], storage |-> p.storage]

\* persistValue(value), the setValue of useLocalStorage('counter-value'), over
\* the pair of the hook's cells and localStorage
persistValue(p, value, written) ==
    [st |-> setStoredValue(p.st, value, written),
     storage |-> IF written
                    THEN [p.storage EXCEPT
                             !["counter-value"] = ItemOf(JSON_stringifyNumber(value))]
                    ELSE p.storage]

\* the runs of the persistence effect after a render with a new state.value:
\* the first run changes storedValue unless it already is the value, which
\* re-creates persistValue (deps [key, storedValue]) and runs the effect again
persistRuns(p, value, w1, w2) ==
    LET first == persistValue(p, value, w1) IN
    IF first.st.value # p.st.value THEN persistValue(first, value, w2) ELSE first

persistEffect(value) ==
    IF persistEnabled(config)
       THEN \E w1 \in BOOLEAN, w2 \in BOOLEAN :
               LET after == persistRuns([st |-> counterStorage, storage |-> localStorage],
                                        value, w1, w2) IN
               /\ counterStorage' = after.st
               /\ localStorage' = after.storage
       ELSE UNCHANGED <<counterStorage, localStorage>>

\* the effects of the first render: useLocalStorage reads 'counter-value'
\* into its own storedValue, then the persistence effect writes state.value,
\* which is config.initialValue; the queued setStoredValue calls leave
\* storedValue at the initial value, so the effect does not run again
mountEffects(cfg, storage, written) ==
    LET loaded == [st |-> readStoredValue(useLocalStorageInitial(cfg.initialValue),
                                          storage["counter-value"]),
                   storage |-> storage] IN
    IF persistEnabled(cfg) THEN persistValue(loaded, cfg.initialValue, written) ELSE loaded

\* the page is loaded: useCounter renders for the first time and its effects run
mountCounter ==
    /\ mounted = "useCounter"
    /\ torn
    /\ mounts < MaxMounts
    /\ torn' = FALSE
    /\ mounts' = mounts + 1
    /\ counterState' = initialState(config)
    /\ rendered' = config.initialValue
    /\ UNCHANGED <<mounted, clock, uuids, counterVars, config, appState,
                   prefersDark, themeStorage, systemTheme, listeners, effectsPending,
                   themeRendered, matches, got,
                   laterVars>>
    /\ returned' = [count |-> rendered', isAtMin |-> isAtMin', isAtMax |-> isAtMax']
    /\ \E written \in BOOLEAN :
          /\ counterStorage' = mountEffects(config, localStorage, written).st
          /\ localStorage' = mountEffects(config, localStorage, written).storage

\* the page is closed or reloaded
unmountCounter ==
    /\ mounted = "useCounter"
    /\ ~torn
    /\ torn' = TRUE
    /\ UNCHANGED <<mounted, clock, uuids, counterVars, hookVars, appState, themeVars,
                   matches, got, mounts,
                   laterVars>>

\* the re-render that ends an event-loop turn: the callbacks are re-created
\* over the new state.value
Render ==
    /\ mounted = "useCounter"
    /\ ~torn
    /\ rendered # counterState.value
    /\ rendered' = counterState.value
    /\ UNCHANGED <<mounted, clock, uuids, counterVars, config, counterState, appState,
                   prefersDark, themeStorage, systemTheme, listeners, effectsPending,
                   themeRendered, lifeVars,
                   laterVars>>
    /\ returned' = [count |-> rendered', isAtMin |-> isAtMin', isAtMax |-> isAtMax']
    /\ persistEffect(counterState.value)

\* time passes between two events
Tick ==
    /\ clock < MaxClock
    /\ clock' = clock + 1
    /\ UNCHANGED <<mounted, uuids, counterVars, hookVars, appState, themeVars,
                 lifeVars,
                   laterVars>>

----------------------------------------------------------------------------
(* appReducer and AppProvider                                               *)

initialAppState ==
    [counter |-> [value |-> 0, isLoading |-> FALSE, error |-> "null", history |-> <<>>],
     settings |-> [soundEnabled |-> TRUE, animationsEnabled |-> TRUE, autoSave |-> TRUE,
                   language |-> "en", notifications |-> TRUE],
     theme |-> "unset",
     analytics |-> [totalInteractions |-> 0, sessionStartTime |-> 0, counterClicks |-> 0,
                    themeChanges |-> 0, errorCount |-> 0]]

\* the payloads of COUNTER_SET_ERROR: null, or a CounterError with its message
NullError == <<>>
CounterErrors == {NullError, <<"">>, <<"Counter failed">>}

\* action.payload?.message || null
errorMessageOrNull(payload) ==
    IF payload = NullError \/ payload[1] = "" THEN "null" ELSE payload[1]

appCounterIncrement(state, uuid, now) ==
    [state EXCEPT
        !.counter.value = state.counter.value + 1,
        !.counter.history = Append(state.counter.history,
            [id |-> uuid, action |-> "INCREMENT",
             previousValue |-> state.counter.value,
             newValue |-> state.counter.value + 1,
             timestamp |-> now, createdAt |-> now, updatedAt |-> now]),
        !.analytics.totalInteractions = state.analytics.totalInteractions + 1,
        !.analytics.counterClicks = state.analytics.counterClicks + 1]

appCounterDecrement(state, uuid, now) ==
    LET newValue == MathMax(0, state.counter.value - 1) IN
    [state EXCEPT
        !.counter.value = newValue,
        !.counter.history = Append(state.counter.history,
            [id |-> uuid, action |-> "DECREMENT",
             previousValue |-> state.counter.value,
             newValue |-> newValue,
             timestamp |-> now, createdAt |-> now, updatedAt |-> now]),
        !.analytics.totalInteractions = state.analytics.totalInteractions + 1,
        !.analytics.counterClicks = state.analytics.counterClicks + 1]

appCounterReset(state, uuid, now) ==
    [state EXCEPT
        !.counter.value = 0,
        !.counter.history = Append(state.counter.history,
            [id |-> uuid, action |-> "RESET",
             previousValue |-> state.counter.value,
             newValue |-> 0,
             timestamp |-> now, createdAt |-> now, updatedAt |-> now]),
        !.analytics.totalInteractions = state.analytics.totalInteractions + 1]

appCounterSetValue(state, payload, uuid, now) ==
    [state EXCEPT
        !.counter.value = payload,
        !.counter.history = Append(state.counter.history,
            [id |-> uuid, action |-> "SET_VALUE",
             previousValue |-> state.counter.value,
             newValue |-> payload,
             timestamp |-> now, createdAt |-> now, updatedAt |-> now])]

appCounterSetError(state, payload) ==
    [state EXCEPT
        !.counter.error = errorMessageOrNull(payload),
        !.analytics.errorCount =
            IF payload # NullError THEN state.analytics.errorCount + 1
                                   ELSE state.analytics.errorCount]

\* { ...state.settings, ...action.payload }: the payload is a partial record
appSettingsUpdate(state, payload) ==
    [state EXCEPT !.settings =
        [k \in DOMAIN state.settings |->
            IF k \in DOMAIN payload THEN payload[k] ELSE state.settings[k]]]

appAnalyticsIncrementInteractions(state) ==
    [state EXCEPT !.analytics.totalInteractions = state.analytics.totalInteractions + 1]

appAnalyticsTrackError(state) ==
    [state EXCEPT !.analytics.errorCount = state.analytics.errorCount + 1]

appThemeChange(state, payload) ==
    [state EXCEPT
        !.theme = payload,
        !.analytics.themeChanges = state.analytics.themeChanges + 1,
        !.analytics.totalInteractions = state.analytics.totalInteractions + 1]

appReducer(state, action, uuid, now) ==
    CASE action.type = "COUNTER_INCREMENT" -> appCounterIncrement(state, uuid, now)
      [] action.type = "COUNTER_DECREMENT" -> appCounterDecrement(state, uuid, now)
      [] action.type = "COUNTER_RESET"     -> appCounterReset(state, uuid, now)
      [] action.type = "COUNTER_SET_VALUE" -> appCounterSetValue(state, action.payload, uuid, now)
      [] action.type = "COUNTER_SET_ERROR" -> appCounterSetError(state, action.payload)
      [] action.type = "SETTINGS_UPDATE"   -> appSettingsUpdate(state, action.payload)
      [] action.type = "ANALYTICS_INCREMENT_INTERACTIONS" ->
             appAnalyticsIncrementInteractions(state)
      [] action.type = "ANALYTICS_TRACK_ERROR" -> appAnalyticsTrackError(state)
      [] action.type = "THEME_CHANGE"      -> appThemeChange(state, action.payload)
      [] OTHER                             -> state

appDispatch(action) ==
    /\ mounted = "AppProvider"
    /\ appState' = appReducer(appState, action, randomUUID, clock)
    /\ uuids' = IF action.type = "COUNTER_SET_ERROR" THEN uuids ELSE uuids + 1
    /\ UNCHANGED <<mounted, clock, counterVars, hookVars, themeVars,
                 lifeVars,
                   laterVars>>

actions_counter_increment ==
    /\ Len(appState.counter.history) < MaxHist
    /\ appDispatch([type |-> "COUNTER_INCREMENT"])

actions_counter_decrement ==
    /\ Len(appState.counter.history) < MaxHist
    /\ appDispatch([type |-> "COUNTER_DECREMENT"])

actions_counter_reset ==
    /\ Len(appState.counter.history) < MaxHist
    /\ appDispatch([type |-> "COUNTER_RESET"])

actions_counter_setValue ==
    /\ Len(appState.counter.history) < MaxHist
    /\ \E value \in Inputs : appDispatch([type |-> "COUNTER_SET_VALUE", payload |-> value])

actions_counter_setError ==
    \E error \in CounterErrors :
        /\ error # NullError => appState.analytics.errorCount < MaxErrors
        /\ appDispatch([type |-> "COUNTER_SET_ERROR", payload |-> error])

----------------------------------------------------------------------------
(* The Counter component                                                    *)

\* ({ initial = 0 }: CounterProps): an absent prop is <<>>
initialOf(p) == IF p.initial = <<>> THEN 0 ELSE p.initial[1]

\* an increment updater with the sign slipped
incrementUpdater_minus(prev) == prev - 1

\* a decrement updater with Math.min in place of Math.max
decrementUpdater_min(prev) == MathMin(0, prev - 1)

\* disabled={count <= 0} on the decrement button
decrementDisabled_nonPositive(c) == c <= 0

\* the updaters handed to setCount
incrementUpdater(prev) == prev + 1

decrementUpdater(prev) == MathMax(0, prev - 1)

\* disabled={count === 0} on the decrement button
decrementDisabled(c) == c = 0

\* the increment button carries no disabled attribute
incrementDisabled(c) == FALSE

\* what a render with the given count puts on screen
CounterView(c) ==
    [countValue |-> c,
     decrementDisabled |-> decrementDisabled(c),
     incrementDisabled |-> incrementDisabled(c)]

\* the count after a click on a button: a disabled button delivers no click
afterIncrementClick == IF dom.incrementDisabled THEN count ELSE incrementUpdater(count)

afterDecrementClick == IF dom.decrementDisabled THEN count ELSE decrementUpdater(count)

handleIncrement ==
    /\ mounted = "Counter"
    /\ count < MaxCount
    /\ count' = afterIncrementClick
    /\ dom' = CounterView(count')
    /\ UNCHANGED <<mounted, clock, uuids, props, hookVars, appState, themeVars,
                 lifeVars,
                   laterVars>>

handleDecrement ==
    /\ mounted = "Counter"
    /\ count' = afterDecrementClick
    /\ dom' = CounterView(count')
    /\ UNCHANGED <<mounted, clock, uuids, props, hookVars, appState, themeVars,
                 lifeVars,
                   laterVars>>

----------------------------------------------------------------------------
(* useTheme (src/hooks/index.ts)                                             *)

\* matchMedia('(prefers-color-scheme: dark)').matches ? DARK : LIGHT
systemThemeOf(queryMatches) == IF queryMatches THEN DARK ELSE LIGHT

\* an effective mode that follows an explicit choice only when it is dark
currentTheme_darkOnly(value, system) == IF value = DARK THEN value ELSE system

currentTheme(value, system) == IF value = SYSTEM THEN system ELSE value

\* what a render of useTheme reads (value, systemTheme) and returns
themeRenderOf(st, system) ==
    [value |-> st.value,
     systemTheme |-> system,
     theme |-> [mode |-> currentTheme(st.value, system)],
     isDark |-> currentTheme(st.value, system) = DARK,
     isLight |-> currentTheme(st.value, system) = LIGHT]

\* the effects of the first render: useLocalStorage reads its item, useTheme
\* registers handleChange on the media query
useThemeEffects ==
    /\ mounted = "useTheme"
    /\ ~torn
    /\ effectsPending
    /\ effectsPending' = FALSE
    /\ themeStorage' = readStoredValue(themeStorage, localStorage["theme-mode"])
    /\ listeners' = listeners + 1
    /\ UNCHANGED <<mounted, clock, uuids, counterVars, hookVars, appState,
                   localStorage, prefersDark, systemTheme, themeRendered, lifeVars,
                   laterVars>>

\* themeStorage.setValue(mode); setItem may throw (quota, storage disabled)
themeStorage_setValue(mode) ==
    \E written \in BOOLEAN :
        /\ themeStorage' = setStoredValue(themeStorage, mode, written)
        /\ localStorage' = IF written
              THEN [localStorage EXCEPT !["theme-mode"] = ItemOf(JSON_stringify(mode))]
              ELSE localStorage

\* a toggle that keeps the mode it finds
nextMode_same(current) == IF current = DARK THEN DARK ELSE LIGHT

\* currentTheme === ThemeMode.DARK ? ThemeMode.LIGHT : ThemeMode.DARK
nextMode(current) == IF current = DARK THEN LIGHT ELSE DARK

\* toggleTheme reads the currentTheme of the render that created it
toggleTheme ==
    /\ mounted = "useTheme"
    /\ ~torn
    /\ ~effectsPending
    /\ themeStorage_setValue(nextMode(themeRendered.theme.mode))
    /\ UNCHANGED <<mounted, clock, uuids, counterVars, hookVars, appState,
                   prefersDark, systemTheme, listeners, effectsPending, themeRendered,
                   lifeVars,
                   laterVars>>

setTheme(mode) ==
    /\ mounted = "useTheme"
    /\ ~torn
    /\ ~effectsPending
    /\ themeStorage_setValue(mode)
    /\ UNCHANGED <<mounted, clock, uuids, counterVars, hookVars, appState,
                   prefersDark, systemTheme, listeners, effectsPending, themeRendered,
                   lifeVars,
                   laterVars>>

setThemeAny == \E mode \in ThemeMode : setTheme(mode)

\* the operating system flips its colour scheme; handleChange runs if it is
\* registered: setSystemTheme(e.matches ? DARK : LIGHT)
handleChange ==
    /\ mounted = "useTheme"
    /\ prefersDark' = ~prefersDark
    /\ systemTheme' = IF listeners > 0 THEN systemThemeOf(prefersDark') ELSE systemTheme
    /\ UNCHANGED <<mounted, clock, uuids, counterVars, hookVars, appState,
                   localStorage, themeStorage, listeners, effectsPending, themeRendered,
                   lifeVars,
                   laterVars>>

\* React re-renders useTheme after a state change
themeRender ==
    /\ mounted = "useTheme"
    /\ ~torn
    /\ themeRendered # themeRenderOf(themeStorage, systemTheme)
    /\ themeRendered' = themeRenderOf(themeStorage, systemTheme)
    /\ UNCHANGED <<mounted, clock, uuids, counterVars, hookVars, appState,
                   localStorage, prefersDark, themeStorage, systemTheme, listeners,
                   effectsPending, lifeVars,
                   laterVars>>

\* a cleanup that leaves the listener on the media query
cleanupListener_leaks(registered, pending) == registered

\* the cleanup of the listener effect: it exists once the effect has run
cleanupListener(registered, pending) == IF pending THEN registered ELSE registered - 1

\* the provider is unmounted: mediaQuery.removeEventListener('change', handleChange)
unmountTheme ==
    /\ mounted = "useTheme"
    /\ ~torn
    /\ torn' = TRUE
    /\ listeners' = cleanupListener(listeners, effectsPending)
    /\ UNCHANGED <<mounted, clock, uuids, counterVars, hookVars, appState,
                   localStorage, prefersDark, themeStorage, systemTheme, effectsPending,
                   themeRendered, matches, got, mounts,
                   laterVars>>

\* the provider is mounted again: a fresh useTheme over the same profile
remountTheme ==
    /\ mounted = "useTheme"
    /\ torn
    /\ mounts < MaxMounts
    /\ torn' = FALSE
    /\ mounts' = mounts + 1
    /\ themeStorage' = useLocalStorageInitial(SYSTEM)
    /\ systemTheme' = systemThemeOf(prefersDark)
    /\ effectsPending' = TRUE
    /\ themeRendered' = themeRenderOf(themeStorage', systemTheme')
    /\ UNCHANGED <<mounted, clock, uuids, counterVars, hookVars, appState,
                   localStorage, prefersDark, listeners, matches, got,
                   laterVars>>

----------------------------------------------------------------------------
(* useMediaQuery (src/theme/index.tsx), here over the query                  *)
(* '(prefers-color-scheme: dark)'                                            *)

\* the effect: setMatches(mediaQuery.matches), then addEventListener
useMediaQueryEffects ==
    /\ mounted = "useMediaQuery"
    /\ ~torn
    /\ effectsPending
    /\ effectsPending' = FALSE
    /\ matches' = prefersDark
    /\ listeners' = listeners + 1
    /\ UNCHANGED <<mounted, clock, uuids, counterVars, hookVars, appState,
                   localStorage, prefersDark, themeStorage, systemTheme, themeRendered,
                   got, torn, mounts,
                   laterVars>>

\* the query flips; handleChange runs if it is registered: setMatches(event.matches)
mediaQueryChange ==
    /\ mounted = "useMediaQuery"
    /\ prefersDark' = ~prefersDark
    /\ matches' = IF listeners > 0 THEN prefersDark' ELSE matches
    /\ UNCHANGED <<mounted, clock, uuids, counterVars, hookVars, appState,
                   localStorage, themeStorage, systemTheme, listeners, effectsPending,
                   themeRendered, got, torn, mounts,
                   laterVars>>

unmountMediaQuery ==
    /\ mounted = "useMediaQuery"
    /\ ~torn
    /\ torn' = TRUE
    /\ listeners' = cleanupListener(listeners, effectsPending)
    /\ UNCHANGED <<mounted, clock, uuids, counterVars, hookVars, appState,
                   localStorage, prefersDark, themeStorage, systemTheme, effectsPending,
                   themeRendered, matches, got, mounts,
                   laterVars>>

remountMediaQuery ==
    /\ mounted = "useMediaQuery"
    /\ torn
    /\ mounts < MaxMounts
    /\ torn' = FALSE
    /\ mounts' = mounts + 1
    /\ matches' = FALSE
    /\ effectsPending' = TRUE
    /\ UNCHANGED <<mounted, clock, uuids, counterVars, hookVars, appState,
                   localStorage, prefersDark, themeStorage, systemTheme, listeners,
                   themeRendered, got,
                   laterVars>>

----------------------------------------------------------------------------
(* createStorageAdapter (src/utils/index.ts)                                 *)

\* getItem: item ? JSON.parse(item) : null, and null when JSON.parse throws
adapter_getItem(storage, key) ==
    IF Truthy(storage[key]) /\ JSON_parses(storage[key].text)
       THEN <<JSON_parse(storage[key].text)>>
       ELSE <<>>

\* a setItem that skips the write
adapter_setItem_dropped(storage, key, text, written) == storage

\* setItem: storage.setItem(key, JSON.stringify(value)); text is the
\* serialized value; a throwing storage.setItem is caught and logged
adapter_setItem(storage, key, text, written) ==
    IF written THEN [storage EXCEPT ![key] = ItemOf(text)] ELSE storage

\* removeItem: a throwing storage.removeItem is caught and logged
adapter_removeItem(storage, key, removed) ==
    IF removed THEN [storage EXCEPT ![key] = NullItem] ELSE storage

\* the values handed to setItem, serialized
AdapterStrings == {LIGHT, ""}
AdapterNumbers == 0..1
\* 'theme-mode' is given strings and 'counter-value' numbers
AdapterTexts(key) ==
    IF key = "theme-mode" THEN {JSON_stringify(v) : v \in AdapterStrings}
    ELSE {JSON_stringifyNumber(n) : n \in AdapterNumbers}

adapterFrame ==
    UNCHANGED <<mounted, clock, uuids, counterVars, hookVars, appState, prefersDark,
                themeStorage, systemTheme, listeners, effectsPending, themeRendered,
                matches, torn, mounts,
                   laterVars>>

adapterGetItem ==
    /\ mounted = "localStorageAdapter"
    /\ \E key \in StorageKeys :
          got' = [got EXCEPT ![key] = adapter_getItem(localStorage, key)]
    /\ UNCHANGED localStorage
    /\ adapterFrame

adapterSetItem ==
    /\ mounted = "localStorageAdapter"
    /\ \E key \in StorageKeys :
          \E text \in AdapterTexts(key), written \in BOOLEAN :
             localStorage' = adapter_setItem(localStorage, key, text, written)
    /\ UNCHANGED got
    /\ adapterFrame

adapterRemoveItem ==
    /\ mounted = "localStorageAdapter"
    /\ \E key \in StorageKeys, removed \in BOOLEAN :
          localStorage' = adapter_removeItem(localStorage, key, removed)
    /\ UNCHANGED got
    /\ adapterFrame

----------------------------------------------------------------------------
(* Construction values of the roots that are not mounted                    *)

CounterIdle ==
    /\ props = [initial |-> <<>>]
    /\ count = 0
    /\ dom = CounterView(0)

HookIdle ==
    /\ config = defaultConfig
    /\ counterState = initialState(defaultConfig)
    /\ rendered = defaultConfig.initialValue
    /\ returned = [count |-> rendered, isAtMin |-> isAtMin, isAtMax |-> isAtMax]
    /\ counterStorage = mountEffects(config, [k \in StorageKeys |-> NullItem], TRUE).st

AppIdle == appState = initialAppState

ThemeIdle ==
    /\ localStorage = [k \in StorageKeys |-> NullItem]
    /\ prefersDark = FALSE
    /\ themeStorage = useLocalStorageInitial(SYSTEM)
    /\ systemTheme = systemThemeOf(prefersDark)
    /\ listeners = 0
    /\ effectsPending = TRUE
    /\ themeRendered = themeRenderOf(themeStorage, systemTheme)
    /\ matches = FALSE
    /\ got = [k \in StorageKeys |-> <<>>]
    /\ torn = FALSE
    /\ mounts = 1

----------------------------------------------------------------------------
(* useLocalStorage with functional updates (src/hooks/index.ts)             *)

\* the functions (val: T) => T that a caller passes to setValue
Updaters == {"plusOne", "double"}
Apply(f, v) == IF f = "plusOne" THEN v + 1 ELSE 2 * v

\* value instanceof Function ? value(storedValue) : value, where storedValue
\* is the one the callback captured at the last render
valueToStore(f, captured) == Apply(f, captured)

\* the load effect of useLocalStorage('counter-value', 0)
lsLoadEffect ==
    /\ mounted = "useLocalStorage"
    /\ effectsPending
    /\ effectsPending' = FALSE
    /\ lsState' = readStoredValue(lsState, localStorage["counter-value"])
    /\ UNCHANGED <<mounted, clock, uuids, counterVars, hookVars, appState, localStorage,
                   prefersDark, themeStorage, systemTheme, listeners, themeRendered,
                   lifeVars, lsClosure, lsCalls, obs, peer, boundary, retry, notifier, asyncHook>>

\* setValue(f) with a function f; the first call after a render is made by
\* a handler of that render, later ones follow in the same handler
lsSetValue(f) ==
    /\ mounted = "useLocalStorage"
    /\ ~effectsPending
    /\ lsCalls = <<>> => lsClosure = lsState.value
    /\ Len(lsCalls) < MaxCalls
    /\ valueToStore(f, lsClosure) <= MaxUpdated
    /\ \E written \in BOOLEAN :
          /\ lsState' = setStoredValue(lsState, valueToStore(f, lsClosure), written)
          /\ localStorage' = IF written
                THEN [localStorage EXCEPT !["counter-value"] =
                         ItemOf(JSON_stringifyNumber(valueToStore(f, lsClosure)))]
                ELSE localStorage
    /\ lsCalls' = Append(lsCalls, f)
    /\ UNCHANGED <<mounted, clock, uuids, counterVars, hookVars, appState,
                   prefersDark, themeStorage, systemTheme, listeners, effectsPending,
                   themeRendered, lifeVars, lsClosure, obs, peer, boundary, retry, notifier, asyncHook>>

lsSetValueAny == \E f \in Updaters : lsSetValue(f)

\* React re-renders the component: useCallback makes a new setValue that
\* captures the current storedValue
lsRender ==
    /\ mounted = "useLocalStorage"
    /\ lsClosure # lsState.value \/ lsCalls # <<>>
    /\ lsClosure' = lsState.value
    /\ lsCalls' = <<>>
    /\ UNCHANGED <<mounted, clock, uuids, counterVars, hookVars, appState, themeVars,
                   lifeVars, lsState, obs, peer, boundary, retry, notifier, asyncHook>>

----------------------------------------------------------------------------
(* The persisting effect and the setValue it depends on                     *)
(* (useCounter: src/hooks/index.ts; AppProvider: providers)                 *)

\* What the effect watches is compared with Object.is: state.value (a number)
\* in useCounter, the state object in AppProvider.  An object is modelled by
\* its identity: a state made by the n-th dispatch is n, the object parsed
\* from localStorage is ParsedObject.
ParsedObject == 0 - 1
ObserverRoots == {"useCounter", "AppProvider"}

\* the cells of the first render: useLocalStorage(key, initial) starts at what
\* the reducer starts at
observerInitial(root, enabled) ==
    [root |-> root,
     state |-> [id |-> 0, enabled |-> enabled],
     storedValue |-> 0, error |-> FALSE, isLoading |-> TRUE,
     view |-> [state |-> [id |-> 0, enabled |-> enabled],
               storedValue |-> 0, error |-> FALSE, isLoading |-> TRUE],
     deps |-> <<0, 0>>, mountDone |-> FALSE, effectsDue |-> TRUE,
     writes |-> 0, renders |-> 0, dispatches |-> 0]

ObserverIdle == observerInitial("useCounter", FALSE)

\* the cells that React compares to decide on a re-render
cellsOf(o) ==
    [state |-> o.state, storedValue |-> o.storedValue, error |-> o.error,
     isLoading |-> o.isLoading]

\* the dependency list of the persisting effect in a render: state (or
\* state.value) and setValue, whose identity follows [key, storedValue]
depsOf(view) == <<view.state.id, view.storedValue>>

\* a setValue that stores a copy of what it is given
savedReference_copy(value, n) == 0 - 2 - n

\* setStoredValue(valueToStore): the value itself, not a copy
savedReference(value, n) == value

\* the body of the persisting effect, run with the values of its render
saveEffect(o, written) ==
    IF o.view.state.enabled
       THEN [o EXCEPT !.storedValue = savedReference(o.view.state.id, o.writes),
                      !.error = ~written,
                      !.writes = o.writes + 1]
       ELSE o

\* what getItem may return at mount: null, a text that is not JSON, or a
\* JSON text (of a number for 'counter-value', of an object for 'app-state')
LoadedValues(root) ==
    IF root = "useCounter" THEN 0..MaxStored ELSE {ParsedObject}

\* the effects of the first render, in hook order: the load effect of
\* useLocalStorage, then the persisting effect
obsMountEffects ==
    /\ mounted = "persistence"
    /\ ~obs.mountDone
    /\ \E item \in {"null", "invalid", "json"}, written \in BOOLEAN :
       \E parsed \in LoadedValues(obs.root) :
          LET loaded == [obs EXCEPT !.storedValue = IF item = "json" THEN parsed ELSE @,
                                    !.error = (item = "invalid"),
                                    !.isLoading = FALSE] IN
          obs' = [saveEffect(loaded, written) EXCEPT !.deps = depsOf(obs.view),
                                                     !.mountDone = TRUE,
                                                     !.effectsDue = FALSE]
    /\ UNCHANGED <<mounted, clock, uuids, counterVars, hookVars, appState, themeVars,
                   lifeVars, updaterVars, peer, boundary, retry, notifier, asyncHook>>

\* a dispatch: useCounter's reducer moves state.value, AppProvider's reducer
\* returns a new state object (whose settings.autoSave may have been toggled)
obsDispatch ==
    /\ mounted = "persistence"
    /\ obs.mountDone
    /\ ~obs.effectsDue
    /\ obs.dispatches < MaxDispatches
    /\ \E value \in 0..MaxStored, autoSave \in BOOLEAN :
          obs' = [obs EXCEPT
                    !.state = IF obs.root = "useCounter"
                                 THEN [id |-> value, enabled |-> @.enabled]
                                 ELSE [id |-> obs.dispatches + 1, enabled |-> autoSave],
                    !.dispatches = @ + 1,
                    !.writes = 0,
                    !.renders = 0]
    /\ UNCHANGED <<mounted, clock, uuids, counterVars, hookVars, appState, themeVars,
                   lifeVars, updaterVars, peer, boundary, retry, notifier, asyncHook>>

\* React re-renders when a cell differs from what the last render read
obsRender ==
    /\ mounted = "persistence"
    /\ obs.mountDone
    /\ ~obs.effectsDue
    /\ cellsOf(obs) # obs.view
    /\ obs' = [obs EXCEPT !.view = cellsOf(obs), !.renders = @ + 1, !.effectsDue = TRUE]
    /\ UNCHANGED <<mounted, clock, uuids, counterVars, hookVars, appState, themeVars,
                   lifeVars, updaterVars, peer, boundary, retry, notifier, asyncHook>>

\* after the render React runs the persisting effect if its dependencies changed
obsEffect ==
    /\ mounted = "persistence"
    /\ obs.effectsDue
    /\ obs.mountDone
    /\ obs.writes < MaxWrites
    /\ \E written \in BOOLEAN :
          obs' = IF depsOf(obs.view) # obs.deps
                    THEN [saveEffect(obs, written) EXCEPT !.deps = depsOf(obs.view),
                                                          !.effectsDue = FALSE]
                    ELSE [obs EXCEPT !.effectsDue = FALSE]
    /\ UNCHANGED <<mounted, clock, uuids, counterVars, hookVars, appState, themeVars,
                   lifeVars, updaterVars, peer, boundary, retry, notifier, asyncHook>>

----------------------------------------------------------------------------
(* A second useTheme instance: useBreakpoint calls useTheme again under the  *)
(* ThemeProvider (src/theme/index.tsx)                                      *)

\* the cells of the second instance at its first render; its systemTheme is
\* seeded from the same media query
peerInitial ==
    [storage |-> useLocalStorageInitial(SYSTEM),
     pending |-> TRUE,
     rendered |-> themeRenderOf(useLocalStorageInitial(SYSTEM), systemThemeOf(FALSE))]

\* the effects of its first render: its own useLocalStorage reads
\* 'theme-mode', its own handleChange is registered
peerEffects ==
    /\ mounted = "useTheme"
    /\ ~torn
    /\ ~effectsPending
    /\ peer.pending
    /\ peer' = [peer EXCEPT !.pending = FALSE,
                            !.storage = readStoredValue(@, localStorage["theme-mode"])]
    /\ listeners' = listeners + 1
    /\ UNCHANGED <<mounted, clock, uuids, counterVars, hookVars, appState,
                   localStorage, prefersDark, themeStorage, systemTheme, effectsPending,
                   themeRendered, lifeVars, updaterVars, obs, boundary, retry, notifier, asyncHook>>

\* React re-renders the second instance after a change of its own cells
peerRender ==
    /\ mounted = "useTheme"
    /\ ~torn
    /\ peer.rendered # themeRenderOf(peer.storage, systemTheme)
    /\ peer' = [peer EXCEPT !.rendered = themeRenderOf(peer.storage, systemTheme)]
    /\ UNCHANGED <<mounted, clock, uuids, counterVars, hookVars, appState, themeVars,
                   lifeVars, updaterVars, obs, boundary, retry, notifier, asyncHook>>

\* a handler of the provider runs once both instances are mounted
providerToggleTheme == ~peer.pending /\ toggleTheme
providerSetTheme == ~peer.pending /\ setThemeAny

----------------------------------------------------------------------------
(* ErrorBoundary (src/components/ErrorBoundary.tsx)                         *)

\* resetKeys?: Array<string | number>
KeyLists == UNION {[1..n -> 1..MaxKey] : n \in 0..MaxKeys}

\* the instance after its constructor and first render
boundaryInitial(resetOnPropsChange, hasResetKeys, resetKeys) ==
    [hasError |-> FALSE,
     previousResetKeys |-> <<>>,
     resetOnPropsChange |-> resetOnPropsChange,
     hasResetKeys |-> hasResetKeys,
     resetKeys |-> resetKeys,
     updatePending |-> FALSE]

boundaryIdle == boundaryInitial(FALSE, FALSE, <<>>)

\* resetKeys.some((key, index) => key !== this.previousResetKeys[index]);
\* an index past the end of previousResetKeys reads undefined
hasResetKeyChanged(resetKeys, previous) ==
    \E index \in 1..Len(resetKeys) :
        index > Len(previous) \/ resetKeys[index] # previous[index]

\* componentDidUpdate(), run with the props of the update
componentDidUpdate(b) ==
    IF b.hasError /\ b.resetOnPropsChange /\ b.hasResetKeys
       THEN [b EXCEPT
               !.hasError = ~hasResetKeyChanged(b.resetKeys, b.previousResetKeys),
               !.updatePending = hasResetKeyChanged(b.resetKeys, b.previousResetKeys),
               !.previousResetKeys = b.resetKeys]
       ELSE b

\* a child throws while rendering: getDerivedStateFromError sets hasError,
\* componentDidCatch calls setState({ errorInfo }), which schedules an update
boundaryCatch ==
    /\ mounted = "ErrorBoundary"
    /\ ~boundary.hasError
    /\ ~boundary.updatePending
    /\ boundary' = [boundary EXCEPT !.hasError = TRUE, !.updatePending = TRUE]
    /\ UNCHANGED <<mounted, clock, uuids, counterVars, hookVars, appState, themeVars,
                   lifeVars, updaterVars, obs, peer, retry, notifier, asyncHook>>

\* an update of the boundary: the one its own setState scheduled (same
\* props), or a re-render by the parent with new resetKeys
boundaryUpdate ==
    /\ mounted = "ErrorBoundary"
    /\ \E resetKeys \in KeyLists :
         /\ boundary.updatePending \/ ~boundary.hasResetKeys => resetKeys = boundary.resetKeys
         /\ boundary' = componentDidUpdate([boundary EXCEPT !.resetKeys = resetKeys,
                                                            !.updatePending = FALSE])
    /\ UNCHANGED <<mounted, clock, uuids, counterVars, hookVars, appState, themeVars,
                   lifeVars, updaterVars, obs, peer, retry, notifier, asyncHook>>

\* resetErrorBoundary, from the fallback's button
resetErrorBoundary ==
    /\ mounted = "ErrorBoundary"
    /\ boundary.hasError
    /\ ~boundary.updatePending
    /\ boundary' = [boundary EXCEPT !.hasError = FALSE, !.updatePending = TRUE]
    /\ UNCHANGED <<mounted, clock, uuids, counterVars, hookVars, appState, themeVars,
                   lifeVars, updaterVars, obs, peer, retry, notifier, asyncHook>>

----------------------------------------------------------------------------
(* AsyncErrorBoundary (src/components/ErrorBoundary.tsx)                    *)

\* the instance after its constructor; calls holds one record per
\* handleRetry invocation that passed the guard, and a timer handle is the
\* index of the invocation that set it (0 is null)
retryInitial(maxRetries, hasOnRetry) ==
    [hasError |-> FALSE, isRetrying |-> FALSE, retryCount |-> 0,
     maxRetries |-> maxRetries, hasOnRetry |-> hasOnRetry,
     retryTimeout |-> 0, calls |-> <<>>, unmounted |-> FALSE,
     refused |-> 0, firedAfterUnmount |-> FALSE, updatedAfterUnmount |-> FALSE]

retryIdle == retryInitial(0, FALSE)

\* a guard that still lets the call through at the limit
retryRefused_pastLimit(retryCount, maxRetries) == retryCount > maxRetries

\* if (retryCount >= maxRetries) return
retryRefused(retryCount, maxRetries) == retryCount >= maxRetries

\* this.setState(update): React drops an update to an unmounted instance
retrySetState(r, update) ==
    IF r.unmounted
       THEN [r EXCEPT !.updatedAfterUnmount = TRUE]
       ELSE [f \in DOMAIN r |-> IF f \in DOMAIN update THEN update[f] ELSE r[f]]

\* a child throws while rendering: getDerivedStateFromError
asyncCatch ==
    /\ mounted = "AsyncErrorBoundary"
    /\ ~retry.unmounted
    /\ ~retry.hasError
    /\ retry' = [retry EXCEPT !.hasError = TRUE]
    /\ UNCHANGED <<mounted, clock, uuids, counterVars, hookVars, appState, themeVars,
                   lifeVars, updaterVars, obs, peer, boundary, notifier, asyncHook>>

\* handleRetry up to its first await: the guard, setState({ isRetrying: true }),
\* then onRetry() is awaited or, without onRetry, the timer is set at once
handleRetry ==
    /\ mounted = "AsyncErrorBoundary"
    /\ ~retry.unmounted
    /\ Len(retry.calls) + retry.refused < MaxInvocations
    /\ retry' =
         IF retryRefused(retry.retryCount, retry.maxRetries)
            THEN [retry EXCEPT !.refused = @ + 1]
            ELSE LET call == [captured |-> retry.retryCount,
                              phase |-> IF retry.hasOnRetry THEN "awaiting" ELSE "scheduled"]
                 IN [retry EXCEPT !.isRetrying = TRUE,
                                  !.calls = Append(@, call),
                                  !.retryTimeout = IF retry.hasOnRetry THEN @
                                                   ELSE Len(retry.calls) + 1]
    /\ UNCHANGED <<mounted, clock, uuids, counterVars, hookVars, appState, themeVars,
                   lifeVars, updaterVars, obs, peer, boundary, notifier, asyncHook>>

\* the promise of onRetry resolves: this.retryTimeout = setTimeout(...)
onRetryResolves(i) ==
    /\ mounted = "AsyncErrorBoundary"
    /\ i \in 1..Len(retry.calls)
    /\ retry.calls[i].phase = "awaiting"
    /\ retry' = [retry EXCEPT !.calls[i].phase = "scheduled", !.retryTimeout = i]
    /\ UNCHANGED <<mounted, clock, uuids, counterVars, hookVars, appState, themeVars,
                   lifeVars, updaterVars, obs, peer, boundary, notifier, asyncHook>>

\* the promise of onRetry rejects: the catch branch
onRetryRejects(i) ==
    /\ mounted = "AsyncErrorBoundary"
    /\ i \in 1..Len(retry.calls)
    /\ retry.calls[i].phase = "awaiting"
    /\ retry' = retrySetState([retry EXCEPT !.calls[i].phase = "done"],
                              [isRetrying |-> FALSE,
                               retryCount |-> retry.calls[i].captured + 1])
    /\ UNCHANGED <<mounted, clock, uuids, counterVars, hookVars, appState, themeVars,
                   lifeVars, updaterVars, obs, peer, boundary, notifier, asyncHook>>

\* retryDelay has passed: the timer callback of invocation i runs
retryTimerFires(i) ==
    /\ mounted = "AsyncErrorBoundary"
    /\ i \in 1..Len(retry.calls)
    /\ retry.calls[i].phase = "scheduled"
    /\ retry' = retrySetState([retry EXCEPT !.calls[i].phase = "done",
                                            !.firedAfterUnmount = @ \/ retry.unmounted],
                              [hasError |-> FALSE,
                               isRetrying |-> FALSE,
                               retryCount |-> retry.calls[i].captured + 1])
    /\ UNCHANGED <<mounted, clock, uuids, counterVars, hookVars, appState, themeVars,
                   lifeVars, updaterVars, obs, peer, boundary, notifier, asyncHook>>

onRetrySettles == \E i \in 1..MaxInvocations : onRetryResolves(i) \/ onRetryRejects(i)
retryTimerFiresAny == \E i \in 1..MaxInvocations : retryTimerFires(i)

\* componentWillUnmount: if (this.retryTimeout) clearTimeout(this.retryTimeout)
componentWillUnmount ==
    /\ mounted = "AsyncErrorBoundary"
    /\ ~retry.unmounted
    /\ retry' = [retry EXCEPT
                   !.unmounted = TRUE,
                   !.calls = [i \in DOMAIN @ |->
                                IF i = retry.retryTimeout /\ @[i].phase = "scheduled"
                                   THEN [@[i] EXCEPT !.phase = "cleared"]
                                   ELSE @[i]]]
    /\ UNCHANGED <<mounted, clock, uuids, counterVars, hookVars, appState, themeVars,
                   lifeVars, updaterVars, obs, peer, boundary, notifier, asyncHook>>

----------------------------------------------------------------------------
(* GlobalErrorHandler (src/components/ErrorBoundary.tsx)                    *)

ListenerIds == 1..MaxListenerIds

\* the singleton after its constructor; index and len are the position and
\* the fixed range of the forEach in progress, snapshot and invoked record
\* the listeners registered when the error arrived and the calls made since
notifierInitial ==
    [errorListeners |-> <<>>, notifying |-> FALSE, index |-> 0, len |-> 0,
     snapshot |-> <<>>, invoked |-> <<>>, handled |-> 0]

\* Array.prototype.indexOf: the first position of the listener, 0 if absent
indexOf(list, listener) ==
    IF \E i \in 1..Len(list) : list[i] = listener
       THEN CHOOSE i \in 1..Len(list) :
               list[i] = listener /\ \A j \in 1..(i - 1) : list[j] # listener
       ELSE 0

\* Array.prototype.splice(index, 1), in place
splice(list, i) == [j \in 1..(Len(list) - 1) |-> IF j < i THEN list[j] ELSE list[j + 1]]

\* removeErrorListener(listener) on the array
withoutListener(list, listener) ==
    IF indexOf(list, listener) > 0 THEN splice(list, indexOf(list, listener)) ELSE list

addErrorListener(listener) ==
    /\ mounted = "GlobalErrorHandler"
    /\ ~notifier.notifying
    /\ Len(notifier.errorListeners) < MaxListeners
    /\ notifier' = [notifier EXCEPT !.errorListeners = Append(@, listener)]
    /\ UNCHANGED <<mounted, clock, uuids, counterVars, hookVars, appState, themeVars,
                   lifeVars, updaterVars, obs, peer, boundary, retry, asyncHook>>

removeErrorListener(listener) ==
    /\ mounted = "GlobalErrorHandler"
    /\ ~notifier.notifying
    /\ notifier' = [notifier EXCEPT !.errorListeners = withoutListener(@, listener)]
    /\ UNCHANGED <<mounted, clock, uuids, counterVars, hookVars, appState, themeVars,
                   lifeVars, updaterVars, obs, peer, boundary, retry, asyncHook>>

\* an 'error' or 'unhandledrejection' event arrives: handleError starts
\* this.errorListeners.forEach(...), whose range is fixed at this moment
handleError ==
    /\ mounted = "GlobalErrorHandler"
    /\ ~notifier.notifying
    /\ notifier.handled < MaxHandled
    /\ notifier' = [notifier EXCEPT !.notifying = TRUE,
                                    !.index = 1,
                                    !.len = Len(notifier.errorListeners),
                                    !.snapshot = notifier.errorListeners,
                                    !.invoked = <<>>,
                                    !.handled = @ + 1]
    /\ UNCHANGED <<mounted, clock, uuids, counterVars, hookVars, appState, themeVars,
                   lifeVars, updaterVars, obs, peer, boundary, retry, asyncHook>>

\* one turn of the forEach: the element now at the index is called inside
\* try/catch; the listener returns, throws, or removes a listener before it
\* returns.  An index past the end of the array is skipped.
notifyListener ==
    /\ mounted = "GlobalErrorHandler"
    /\ notifier.notifying
    /\ notifier.index <= notifier.len
    /\ \E outcome \in {"returns", "throws"}, removed \in ListenerIds \cup {0} :
          notifier' =
             IF notifier.index <= Len(notifier.errorListeners)
                THEN [notifier EXCEPT
                        !.invoked = Append(@, notifier.errorListeners[notifier.index]),
                        !.errorListeners =
                            IF removed = 0 THEN @ ELSE withoutListener(@, removed),
                        !.index = @ + 1]
                ELSE [notifier EXCEPT !.index = @ + 1]
    /\ UNCHANGED <<mounted, clock, uuids, counterVars, hookVars, appState, themeVars,
                   lifeVars, updaterVars, obs, peer, boundary, retry, asyncHook>>

\* the forEach has passed its range: handleError returns
handleErrorReturns ==
    /\ mounted = "GlobalErrorHandler"
    /\ notifier.notifying
    /\ notifier.index > notifier.len
    /\ notifier' = [notifier EXCEPT !.notifying = FALSE]
    /\ UNCHANGED <<mounted, clock, uuids, counterVars, hookVars, appState, themeVars,
                   lifeVars, updaterVars, obs, peer, boundary, retry, asyncHook>>

addErrorListenerAny == \E listener \in ListenerIds : addErrorListener(listener)
removeErrorListenerAny == \E listener \in ListenerIds : removeErrorListener(listener)

----------------------------------------------------------------------------
(* useAsync (src/hooks/index.ts)                                            *)

\* The n-th invocation of execute resolves with the data n or rejects with
\* the message n; 0 stands for null.  lastFetch is the time of the
\* settlement, counted in settlements.
asyncInitial ==
    [state |-> [data |-> 0, isLoading |-> FALSE, error |-> 0, lastFetch |-> 0],
     pending |-> {}, started |-> 0, settled |-> 0]

\* execute(...args) up to its await:
\* setState(prev => ({ ...prev, isLoading: true, error: null }))
execute ==
    /\ mounted = "useAsync"
    /\ asyncHook.started < MaxExecutes
    /\ asyncHook' = [asyncHook EXCEPT !.state.isLoading = TRUE,
                                      !.state.error = 0,
                                      !.started = @ + 1,
                                      !.pending = @ \cup {asyncHook.started + 1}]
    /\ UNCHANGED <<mounted, clock, uuids, counterVars, hookVars, appState, themeVars,
                   lifeVars, updaterVars, obs, peer, boundary, retry, notifier>>

\* the promise of invocation n resolves: setState({ data, isLoading: false, ... })
executeResolves(n) ==
    /\ mounted = "useAsync"
    /\ n \in asyncHook.pending
    /\ asyncHook' = [asyncHook EXCEPT
                       !.state = [data |-> n, isLoading |-> FALSE, error |-> 0,
                                  lastFetch |-> asyncHook.settled + 1],
                       !.settled = @ + 1,
                       !.pending = @ \ {n}]
    /\ UNCHANGED <<mounted, clock, uuids, counterVars, hookVars, appState, themeVars,
                   lifeVars, updaterVars, obs, peer, boundary, retry, notifier>>

\* the promise of invocation n rejects: setState({ data: null, error, ... })
executeRejects(n) ==
    /\ mounted = "useAsync"
    /\ n \in asyncHook.pending
    /\ asyncHook' = [asyncHook EXCEPT
                       !.state = [data |-> 0, isLoading |-> FALSE, error |-> n,
                                  lastFetch |-> asyncHook.settled + 1],
                       !.settled = @ + 1,
                       !.pending = @ \ {n}]
    /\ UNCHANGED <<mounted, clock, uuids, counterVars, hookVars, appState, themeVars,
                   lifeVars, updaterVars, obs, peer, boundary, retry, notifier>>

executeSettles == \E n \in 1..MaxExecutes : executeResolves(n) \/ executeRejects(n)

----------------------------------------------------------------------------
(* Specifications                                                           *)

\* the roots that are not rendered hold their initial values
UpdaterIdle ==
    /\ lsState = useLocalStorageInitial(0)
    /\ lsClosure = 0
    /\ lsCalls = <<>>

LaterIdle == UpdaterIdle /\ obs = ObserverIdle /\ peer = peerInitial /\ boundary = boundaryIdle /\ retry = retryIdle /\ notifier = notifierInitial /\ asyncHook = asyncInitial

InitHook ==
    /\ mounted = "useCounter"
    /\ clock = 0
    /\ uuids = 0
    /\ config \in Configs
    /\ counterState = initialState(config)
    /\ rendered = config.initialValue
    /\ returned = [count |-> rendered, isAtMin |-> isAtMin, isAtMax |-> isAtMax]
    /\ counterStorage = mountEffects(config, [k \in StorageKeys |-> NullItem], TRUE).st
    /\ CounterIdle
    /\ AppIdle
    /\ ThemeIdle
    /\ LaterIdle

InitApp ==
    /\ mounted = "AppProvider"
    /\ clock = 0
    /\ uuids = 0
    /\ appState = initialAppState
    /\ CounterIdle
    /\ HookIdle
    /\ ThemeIdle
    /\ LaterIdle

\* useCounter() called without a configuration
InitHookDefault == InitHook /\ config = defaultConfig

\* useCounter({ initialValue: 5 }): minValue 0, no upper bound
InitScenario ==
    /\ mounted = "useCounter"
    /\ clock = 0
    /\ uuids = 0
    /\ config = scenarioConfig
    /\ counterState = initialState(config)
    /\ rendered = config.initialValue
    /\ returned = [count |-> rendered, isAtMin |-> isAtMin, isAtMax |-> isAtMax]
    /\ counterStorage = mountEffects(config, [k \in StorageKeys |-> NullItem], TRUE).st
    /\ CounterIdle
    /\ AppIdle
    /\ ThemeIdle
    /\ LaterIdle

InitCounter ==
    /\ mounted = "Counter"
    /\ clock = 0
    /\ uuids = 0
    /\ props \in {[initial |-> <<>>]} \cup {[initial |-> <<i>>] : i \in InitialProps}
    /\ count = initialOf(props)
    /\ dom = CounterView(count)
    /\ HookIdle
    /\ AppIdle
    /\ ThemeIdle
    /\ LaterIdle

\* useTheme() in a profile that may already hold an item under 'theme-mode'
InitTheme ==
    /\ mounted = "useTheme"
    /\ clock = 0
    /\ uuids = 0
    /\ localStorage \in {[k \in StorageKeys |-> IF k = "theme-mode" THEN item ELSE NullItem] :
                            item \in StorageItems}
    /\ prefersDark \in BOOLEAN
    /\ themeStorage = useLocalStorageInitial(SYSTEM)
    /\ systemTheme = systemThemeOf(prefersDark)
    /\ listeners = 0
    /\ effectsPending = TRUE
    /\ themeRendered = themeRenderOf(themeStorage, systemTheme)
    /\ matches = FALSE
    /\ got = [k \in StorageKeys |-> <<>>]
    /\ torn = FALSE
    /\ mounts = 1
    /\ CounterIdle
    /\ HookIdle
    /\ AppIdle
    /\ LaterIdle

\* useMediaQuery('(prefers-color-scheme: dark)')
InitMediaQuery ==
    /\ mounted = "useMediaQuery"
    /\ clock = 0
    /\ uuids = 0
    /\ prefersDark \in BOOLEAN
    /\ matches = FALSE
    /\ got = [k \in StorageKeys |-> <<>>]
    /\ listeners = 0
    /\ effectsPending = TRUE
    /\ torn = FALSE
    /\ mounts = 1
    /\ localStorage = [k \in StorageKeys |-> NullItem]
    /\ themeStorage = useLocalStorageInitial(SYSTEM)
    /\ systemTheme = LIGHT
    /\ themeRendered = themeRenderOf(themeStorage, systemTheme)
    /\ CounterIdle
    /\ HookIdle
    /\ AppIdle
    /\ LaterIdle

\* the adapter over a profile that holds anything under 'theme-mode'
InitAdapter ==
    /\ mounted = "localStorageAdapter"
    /\ clock = 0
    /\ uuids = 0
    /\ localStorage \in {[k \in StorageKeys |-> IF k = "theme-mode" THEN item ELSE NullItem] :
                            item \in StorageItems}
    /\ got = [k \in StorageKeys |-> <<>>]
    /\ prefersDark = FALSE
    /\ themeStorage = useLocalStorageInitial(SYSTEM)
    /\ systemTheme = systemThemeOf(prefersDark)
    /\ listeners = 0
    /\ effectsPending = TRUE
    /\ themeRendered = themeRenderOf(themeStorage, systemTheme)
    /\ matches = FALSE
    /\ torn = FALSE
    /\ mounts = 1
    /\ CounterIdle
    /\ HookIdle
    /\ AppIdle
    /\ LaterIdle

\* what the profile may hold under 'counter-value' before the page is loaded
CounterItems ==
    {NullItem, ItemOf(<<"abc">>)} \cup {ItemOf(JSON_stringifyNumber(n)) : n \in 0..MaxStored}

\* useCounter({ initialValue, enablePersistence })
PersistConfigs ==
    {[defaultConfig EXCEPT !.initialValue = i, !.enablePersistence = p] :
        i \in 0..MaxConfigValue, p \in BOOLEAN}

\* the page that uses useCounter is about to be loaded
InitPersist ==
    /\ mounted = "useCounter"
    /\ clock = 0
    /\ uuids = 0
    /\ config \in PersistConfigs
    /\ counterState = initialState(config)
    /\ rendered = config.initialValue
    /\ returned = [count |-> rendered, isAtMin |-> isAtMin, isAtMax |-> isAtMax]
    /\ counterStorage = useLocalStorageInitial(config.initialValue)
    /\ localStorage \in {[k \in StorageKeys |-> IF k = "counter-value" THEN item ELSE NullItem] :
                            item \in CounterItems}
    /\ prefersDark = FALSE
    /\ themeStorage = useLocalStorageInitial(SYSTEM)
    /\ systemTheme = systemThemeOf(prefersDark)
    /\ listeners = 0
    /\ effectsPending = TRUE
    /\ themeRendered = themeRenderOf(themeStorage, systemTheme)
    /\ matches = FALSE
    /\ got = [k \in StorageKeys |-> <<>>]
    /\ torn = TRUE
    /\ mounts = 0
    /\ CounterIdle
    /\ AppIdle
    /\ LaterIdle

\* a component that calls useLocalStorage('counter-value', 0)
InitUpdater ==
    /\ mounted = "useLocalStorage"
    /\ clock = 0
    /\ uuids = 0
    /\ localStorage \in {[k \in StorageKeys |-> IF k = "counter-value" THEN item ELSE NullItem] :
                            item \in CounterItems}
    /\ prefersDark = FALSE
    /\ themeStorage = useLocalStorageInitial(SYSTEM)
    /\ systemTheme = systemThemeOf(prefersDark)
    /\ listeners = 0
    /\ effectsPending = TRUE
    /\ themeRendered = themeRenderOf(themeStorage, systemTheme)
    /\ matches = FALSE
    /\ got = [k \in StorageKeys |-> <<>>]
    /\ torn = FALSE
    /\ mounts = 1
    /\ CounterIdle
    /\ HookIdle
    /\ AppIdle
    /\ UpdaterIdle
    /\ asyncHook = asyncInitial
    /\ notifier = notifierInitial
    /\ retry = retryIdle
    /\ boundary = boundaryIdle
    /\ obs = ObserverIdle
    /\ peer = peerInitial

\* useCounter(config) or AppProvider has rendered for the first time
InitObserver ==
    /\ mounted = "persistence"
    /\ clock = 0
    /\ uuids = 0
    /\ CounterIdle
    /\ HookIdle
    /\ AppIdle
    /\ ThemeIdle
    /\ UpdaterIdle
    /\ asyncHook = asyncInitial
    /\ notifier = notifierInitial
    /\ retry = retryIdle
    /\ boundary = boundaryIdle
    /\ peer = peerInitial
    /\ obs \in {observerInitial(root, enabled) : root \in ObserverRoots, enabled \in BOOLEAN}
    /\ obs.root = "AppProvider" => obs.state.enabled = initialAppState.settings.autoSave

\* <ErrorBoundary resetOnPropsChange resetKeys={...}> has rendered its children
InitBoundary ==
    /\ mounted = "ErrorBoundary"
    /\ clock = 0
    /\ uuids = 0
    /\ CounterIdle
    /\ HookIdle
    /\ AppIdle
    /\ ThemeIdle
    /\ UpdaterIdle
    /\ asyncHook = asyncInitial
    /\ notifier = notifierInitial
    /\ retry = retryIdle
    /\ obs = ObserverIdle
    /\ peer = peerInitial
    /\ boundary \in {boundaryInitial(r, h, k) : r \in BOOLEAN, h \in BOOLEAN, k \in KeyLists}
    /\ ~boundary.hasResetKeys => boundary.resetKeys = <<>>

\* <AsyncErrorBoundary maxRetries={...} onRetry={...}> has rendered its children
InitRetry ==
    /\ mounted = "AsyncErrorBoundary"
    /\ clock = 0
    /\ uuids = 0
    /\ CounterIdle
    /\ HookIdle
    /\ AppIdle
    /\ ThemeIdle
    /\ UpdaterIdle
    /\ asyncHook = asyncInitial
    /\ notifier = notifierInitial
    /\ obs = ObserverIdle
    /\ peer = peerInitial
    /\ boundary = boundaryIdle
    /\ retry \in {retryInitial(m, h) : m \in 0..MaxRetries, h \in BOOLEAN}

\* GlobalErrorHandler.getInstance() has created the singleton
InitNotifier ==
    /\ mounted = "GlobalErrorHandler"
    /\ clock = 0
    /\ uuids = 0
    /\ CounterIdle
    /\ HookIdle
    /\ AppIdle
    /\ ThemeIdle
    /\ UpdaterIdle
    /\ asyncHook = asyncInitial
    /\ obs = ObserverIdle
    /\ peer = peerInitial
    /\ boundary = boundaryIdle
    /\ retry = retryIdle
    /\ notifier = notifierInitial

\* a component that calls useAsync(asyncFunction) has rendered
InitAsync ==
    /\ mounted = "useAsync"
    /\ clock = 0
    /\ uuids = 0
    /\ CounterIdle
    /\ HookIdle
    /\ AppIdle
    /\ ThemeIdle
    /\ UpdaterIdle
    /\ obs = ObserverIdle
    /\ peer = peerInitial
    /\ boundary = boundaryIdle
    /\ retry = retryIdle
    /\ notifier = notifierInitial
    /\ asyncHook = asyncInitial

NextHook == increment \/ decrement \/ reset \/ setValueAny \/ Render \/ Tick

NextApp ==
    \/ actions_counter_increment
    \/ actions_counter_decrement
    \/ actions_counter_reset
    \/ actions_counter_setValue
    \/ actions_counter_setError
    \/ Tick

NextCounter == handleIncrement \/ handleDecrement

NextTheme ==
    \/ useThemeEffects
    \/ toggleTheme
    \/ setThemeAny
    \/ handleChange
    \/ themeRender
    \/ unmountTheme
    \/ remountTheme

NextMediaQuery ==
    \/ useMediaQueryEffects
    \/ mediaQueryChange
    \/ unmountMediaQuery
    \/ remountMediaQuery

NextAdapter == adapterGetItem \/ adapterSetItem \/ adapterRemoveItem

\* the two readers and writers of localStorage
SpecStore == (InitTheme \/ InitAdapter) /\ [][NextTheme \/ NextAdapter]_vars

\* either hook that listens to the media query
SpecListeners == (InitTheme \/ InitMediaQuery) /\ [][NextTheme \/ NextMediaQuery]_vars

\* useTheme alone
SpecTheme == InitTheme /\ [][NextTheme]_vars

NextPersist ==
    \/ mountCounter
    \/ unmountCounter
    \/ increment
    \/ decrement
    \/ reset
    \/ Render

\* useCounter over a profile, through page loads
SpecPersist == InitPersist /\ [][NextPersist]_vars

NextPersistLive ==
    \/ mountCounter
    \/ increment
    \/ decrement
    \/ reset
    \/ Render

\* one page load of useCounter in which every pending re-render happens
SpecPersistLive ==
    InitPersist /\ [][NextPersistLive]_vars /\ WF_vars(mountCounter) /\ WF_vars(Render)

\* useCounter alone
NextUpdater == lsLoadEffect \/ lsSetValueAny \/ lsRender

SpecUpdater == InitUpdater /\ [][NextUpdater]_vars

NextObserver == obsMountEffects \/ obsDispatch \/ obsRender \/ obsEffect

SpecObserver ==
    InitObserver /\ [][NextObserver]_vars /\ WF_vars(obsMountEffects) /\ WF_vars(obsRender)
        /\ WF_vars(obsEffect)

\* the ThemeProvider and a useBreakpoint consumer, with a steady colour scheme
InitThemePair == InitTheme /\ ~prefersDark

NextThemePair ==
    \/ useThemeEffects
    \/ peerEffects
    \/ providerToggleTheme
    \/ providerSetTheme
    \/ themeRender
    \/ peerRender

SpecThemePair == InitThemePair /\ [][NextThemePair]_vars

NextBoundary == boundaryCatch \/ boundaryUpdate \/ resetErrorBoundary

SpecBoundary == InitBoundary /\ [][NextBoundary]_vars

NextRetry ==
    \/ asyncCatch
    \/ handleRetry
    \/ onRetrySettles
    \/ retryTimerFiresAny
    \/ componentWillUnmount

SpecRetry == InitRetry /\ [][NextRetry]_vars

NextNotifier ==
    \/ addErrorListenerAny
    \/ removeErrorListenerAny
    \/ handleError
    \/ notifyListener
    \/ handleErrorReturns

SpecNotifier == InitNotifier /\ [][NextNotifier]_vars

NextAsync == execute \/ executeSettles

SpecAsync == InitAsync /\ [][NextAsync]_vars

SpecHook == InitHook /\ [][NextHook]_vars

\* AppProvider alone
SpecApp == InitApp /\ [][NextApp]_vars

\* the Counter component alone
SpecCounter == InitCounter /\ [][NextCounter]_vars

\* useCounter under every configuration, or AppProvider
SpecEngines == (InitHook \/ InitApp) /\ [][NextHook \/ NextApp]_vars

\* the session that starts at 5 is followed through increments and decrements only
NextMinMax ==
    \/ config # scenarioConfig /\ NextHook
    \/ config = scenarioConfig /\ (increment \/ decrement \/ Render \/ Tick)

\* useCounter under every configuration and in the session that starts at 5
SpecMinMax == (InitHook \/ InitScenario) /\ [][NextMinMax]_vars

\* either reducer-backed root
SpecReducers == (InitHookDefault \/ InitApp) /\ [][NextHook \/ NextApp]_vars

----------------------------------------------------------------------------
(* Properties                                                               *)

Last(seq) == seq[Len(seq)]

IsPrefix(s, t) == Len(s) <= Len(t) /\ SubSeq(t, 1, Len(s)) = s

Clamp(v, lo, hi) == IF v < lo THEN lo ELSE IF v > hi THEN hi ELSE v

Smaller(a, b) == IF a < b THEN a ELSE b

Larger(a, b) == IF a > b THEN a ELSE b

\* C1: for a configuration with minValue <= initialValue <= maxValue, the
\* value of useCounter stays within [minValue, maxValue] after every call of
\* increment, decrement, reset and setValue.
C1_ValueWithinBounds ==
    (config.minValue <= config.initialValue /\ config.initialValue <= config.maxValue)
        => /\ config.minValue <= counterState.value
           /\ counterState.value <= config.maxValue

\* C2: every action counterReducer processes makes the history exactly one
\* entry longer, and the new entry records the value before the action as
\* previousValue and the value after it as newValue.
C2_DispatchAppendsOneEntry ==
    [][(increment \/ decrement \/ reset \/ setValueAny) =>
          /\ Len(counterState'.history) = Len(counterState.history) + 1
          /\ Last(counterState'.history).previousValue = counterState.value
          /\ Last(counterState'.history).newValue = counterState'.value]_vars

C2_Witness ==
    /\ mounted = "useCounter"
    /\ Len(counterState.history) >= 2
    /\ Last(counterState.history).action = "DECREMENT"
    /\ Last(counterState.history).previousValue # Last(counterState.history).newValue

\* C3: the history is append-only in both reducers: the history before a step
\* is a prefix of the history after it.
C3_HistoryAppendOnly ==
    [][/\ IsPrefix(counterState.history, counterState'.history)
       /\ IsPrefix(appState.counter.history, appState'.counter.history)]_vars

C3_Witness ==
    /\ mounted = "useCounter"
    /\ Len(counterState.history) >= 2
    /\ Last(counterState.history).action = "RESET"

\* C4: an increment yields newValue = min(value + step, maxValue).
C4_IncrementByStep ==
    [][increment =>
          counterState'.value = Smaller(counterState.value + config.step, config.maxValue)]_vars

\* C5: a decrement yields newValue = max(value - step, minValue).
C5_DecrementByStep ==
    [][decrement =>
          counterState'.value = Larger(counterState.value - config.step, config.minValue)]_vars

\* C6: setValue(v) of useCounter leaves value = clamp(v, minValue, maxValue)
\* and appends a SET_VALUE entry whose newValue is that clamped value.
C6_SetValueClamps ==
    [][\A v \in Inputs :
          setValue(v) =>
              /\ counterState'.value = Clamp(v, config.minValue, config.maxValue)
              /\ Len(counterState'.history) = Len(counterState.history) + 1
              /\ Last(counterState'.history).action = "SET_VALUE"
              /\ Last(counterState'.history).newValue =
                     Clamp(v, config.minValue, config.maxValue)]_vars

C6_Witness ==
    /\ mounted = "useCounter"
    /\ counterState.history # <<>>
    /\ Last(counterState.history).action = "SET_VALUE"
    /\ Last(counterState.history).previousValue # Last(counterState.history).newValue
    /\ counterState.value = config.maxValue

\* C7: the counter value of AppProvider is never negative, whatever sequence
\* of increment, decrement, reset and setValue(n) is dispatched.
C7_AppValueNonNegative == appState.counter.value >= 0

\* C8: a Counter started with initial >= 0 never shows a negative count, and
\* a decrement click at count 0 leaves the count at 0.
C8_CountNonNegative ==
    initialOf(props) >= 0 =>
        /\ count >= 0
        /\ count = 0 => afterDecrementClick = 0

C8_Witness ==
    /\ mounted = "Counter"
    /\ initialOf(props) >= 1
    /\ count = 0
    /\ dom.decrementDisabled

\* C9: on screen the decrement button is disabled exactly when count is 0,
\* and the increment button is never disabled.
C9_ButtonStates ==
    /\ dom.decrementDisabled <=> count = 0
    /\ ~dom.incrementDisabled

C9_Witness ==
    /\ mounted = "Counter"
    /\ props.initial = <<>>
    /\ count = 1
    /\ ~dom.decrementDisabled

\* C10: the count starts at the initial prop (0 when the prop is absent), an
\* increment click raises it by exactly 1 and a decrement click at count > 0
\* lowers it by exactly 1.
C10_ClicksStepByOne ==
    /\ (props.initial = <<>> => count = 0)
    /\ (props.initial # <<>> => count = props.initial[1])
    /\ [][/\ handleIncrement => count' = count + 1
          /\ (handleDecrement /\ count > 0) => count' = count - 1]_vars

C10_Witness ==
    /\ mounted = "Counter"
    /\ props.initial = <<3>>
    /\ count = 1

\* C11: a reset sets the value to 0 whatever the current value and the
\* configured initialValue are, in counterReducer and in appReducer alike:
\* both append a RESET entry whose newValue is 0.
C11_ResetToZero ==
    [][/\ reset =>
            /\ counterState'.value = 0
            /\ Last(counterState'.history).action = "RESET"
            /\ Last(counterState'.history).newValue = 0
       /\ actions_counter_reset =>
            /\ appState'.counter.value = 0
            /\ Last(appState'.counter.history).action = "RESET"
            /\ Last(appState'.counter.history).newValue = 0]_vars

C11_Witness ==
    /\ mounted = "useCounter"
    /\ config.initialValue # 0
    /\ counterState.history # <<>>
    /\ Last(counterState.history).action = "RESET"
    /\ Last(counterState.history).previousValue # 0
    /\ counterState.value = 0

\* C12: increment() called while the hook's value is at or above maxValue,
\* and decrement() called while it is at or below minValue, dispatch nothing:
\* value and history stay as they are.
C12_GatedCallsDispatchNothing ==
    [][/\ (increment /\ rendered >= config.maxValue) => UNCHANGED counterState
       /\ (decrement /\ rendered <= config.minValue) => UNCHANGED counterState]_vars

C12_Witness ==
    /\ mounted = "useCounter"
    /\ counterState.history # <<>>
    /\ Last(counterState.history).action = "INCREMENT"
    /\ counterState.value = config.maxValue
    /\ rendered = counterState.value

\* C13: no INCREMENT or DECREMENT entry of the history is a no-op: its
\* previousValue differs from its newValue.
C13_NoNoOpEntries ==
    \A i \in 1..Len(counterState.history) :
        counterState.history[i].action \in {"INCREMENT", "DECREMENT"}
            => counterState.history[i].previousValue # counterState.history[i].newValue

\* C14: also when increment() or decrement() is called several times before
\* the re-render, the reducer never applies an INCREMENT to a value at or
\* above maxValue nor a DECREMENT to a value at or below minValue.
C14_GatingUnderBatching ==
    [][counterState' # counterState =>
          /\ Last(counterState'.history).action = "INCREMENT"
                => counterState.value < config.maxValue
          /\ Last(counterState'.history).action = "DECREMENT"
                => counterState.value > config.minValue]_vars

\* C15: an action of an unrecognized type is ignored by both reducers: they
\* return the state they were given, with no entry appended.
C15_UnrecognizedActionIgnored ==
    /\ \A t \in {"UNKNOWN", "COUNTER_INCREMENT"} :
          counterReducer(counterState, [type |-> t, payload |-> NoPayload],
                         randomUUID, clock) = counterState
    /\ \A t \in {"UNKNOWN", "INCREMENT"} :
          appReducer(appState, [type |-> t, payload |-> 0], randomUUID, clock) = appState

C15_Witness ==
    /\ mounted = "AppProvider"
    /\ appState.counter.error # "null"
    /\ Len(appState.counter.history) >= 2

\* C16: a counter mutation that follows a state with the error set leaves
\* the error cleared.
C16_ErrorClearedByMutation ==
    [][(/\ Len(appState'.counter.history) = Len(appState.counter.history) + 1
        /\ appState.counter.error # "null")
          => appState'.counter.error = "null"]_vars

\* C17: at construction the value is initialValue clamped into
\* [minValue, maxValue] and the history is empty, also for an initialValue
\* outside the bounds.
C17_ConstructionClamped ==
    uuids = 0 =>
        /\ counterState.history = <<>>
        /\ counterState.value = Clamp(config.initialValue, config.minValue, config.maxValue)

AllDecrements(h) == \A i \in 1..Len(h) : h[i].action = "DECREMENT"

\* C18: what the hook returns has isAtMin exactly when count <= minValue and
\* isAtMax exactly when count >= maxValue. From initial value 5 with minValue
\* 0 both are false; after five decrements the value is 0 and isAtMin is
\* true, and further decrements leave the value at 0.
C18_AtMinAtMax ==
    /\ returned.isAtMin <=> returned.count <= config.minValue
    /\ returned.isAtMax <=> returned.count >= config.maxValue
    /\ config = scenarioConfig =>
          /\ counterState.history = <<>> => (~returned.isAtMin /\ ~returned.isAtMax)
          /\ (Len(counterState.history) >= 5 /\ AllDecrements(counterState.history)) =>
                /\ counterState.value = 0
                /\ returned.count = counterState.value => returned.isAtMin

C18_Witness ==
    /\ config = scenarioConfig
    /\ Len(counterState.history) = 5
    /\ AllDecrements(counterState.history)
    /\ returned.count = 0
    /\ returned.isAtMin
    /\ ~returned.isAtMax

\* C19: the reducer is pure: applied again to the same state and the same
\* action, after the identifier source and the clock have moved on, it
\* returns the same next state.
C19_ReducerPure ==
    \A t \in CounterActionType : \A later \in clock..MaxClock :
        counterReducer(counterState, [type |-> t, payload |-> <<0>>], randomUUID, clock)
            = counterReducer(counterState, [type |-> t, payload |-> <<0>>],
                             randomUUID + 1, later)

\* C20: what useTheme returns as the effective mode is the stored preference
\* it read when that is light or dark, and the system theme it read when the
\* preference is system; once the render has caught up the same holds of
\* themeStorage.value and systemTheme themselves, whatever localStorage, the
\* error field and the media query hold.
C20_EffectiveMode ==
    /\ themeRendered.value \in {LIGHT, DARK} => themeRendered.theme.mode = themeRendered.value
    /\ themeRendered.value = SYSTEM => themeRendered.theme.mode = themeRendered.systemTheme
    /\ (themeRendered.value = themeStorage.value /\ themeRendered.systemTheme = systemTheme) =>
          /\ themeStorage.value \in {LIGHT, DARK} => themeRendered.theme.mode = themeStorage.value
          /\ themeStorage.value = SYSTEM => themeRendered.theme.mode = systemTheme

\* light was chosen while the system is dark, and the write of the choice failed
C20_Witness ==
    /\ mounted = "useTheme"
    /\ ~effectsPending
    /\ themeStorage.value = LIGHT
    /\ themeStorage.error # "null"
    /\ localStorage["theme-mode"] = ItemOf(JSON_stringify(DARK))
    /\ systemTheme = DARK
    /\ themeRendered.theme.mode = LIGHT

\* C21: toggleTheme() stores light when the effective mode it sees is dark
\* and dark otherwise, never system, and the effective mode of the next
\* render is the opposite of the one it saw.
C21_ToggleFlips ==
    [][toggleTheme =>
          /\ themeStorage'.value = (IF themeRendered.theme.mode = DARK THEN LIGHT ELSE DARK)
          /\ themeStorage'.value # SYSTEM
          /\ themeRendered.theme.mode \in {LIGHT, DARK} =>
                /\ themeRenderOf(themeStorage', systemTheme').theme.mode \in {LIGHT, DARK}
                /\ themeRenderOf(themeStorage', systemTheme').theme.mode
                      # themeRendered.theme.mode]_vars

\* the preference was system under a dark system theme and has just been toggled
C21_Witness ==
    /\ mounted = "useTheme"
    /\ themeRendered.value = SYSTEM
    /\ themeRendered.theme.mode = DARK
    /\ systemTheme = DARK
    /\ themeStorage.value = LIGHT

\* C22: while useTheme is mounted with the preference system, every change
\* of the operating system's colour scheme makes the effective mode the
\* newly reported scheme; with the preference light or dark the change
\* leaves the effective mode as it was.
C22_SystemFollowsOS ==
    [][(mounted = "useTheme" /\ ~torn /\ prefersDark' # prefersDark) =>
          /\ themeStorage.value = SYSTEM =>
                themeRenderOf(themeStorage', systemTheme').theme.mode
                    = systemThemeOf(prefersDark')
          /\ themeStorage.value \in {LIGHT, DARK} =>
                themeRenderOf(themeStorage', systemTheme').theme.mode
                    = themeRenderOf(themeStorage, systemTheme).theme.mode]_vars

\* C23: the media query carries one change listener while a hook is mounted
\* and its effect has run, and none before that and after the unmount,
\* through every sequence of mounts and unmounts; a change of the query
\* after the unmount reaches no state of the hook.
C23_ListenerScoped ==
    /\ [](listeners = IF ~torn /\ ~effectsPending THEN 1 ELSE 0)
    /\ [][(torn /\ prefersDark' # prefersDark) =>
             UNCHANGED <<systemTheme, themeRendered, matches>>]_vars

\* the second mount of useTheme, with its listener registered
C23_Witness ==
    /\ mounted = "useTheme"
    /\ mounts = 2
    /\ ~torn
    /\ ~effectsPending
    /\ listeners = 1

\* C24: setTheme(mode) that meets no storage failure leaves the JSON text
\* of mode under 'theme-mode', a text that parses back to mode, and the
\* effective mode of the next render is mode resolved against systemTheme.
C24_SetThemePersists ==
    [][\A mode \in ThemeMode :
          (setTheme(mode) /\ themeStorage'.error = "null") =>
             /\ Truthy(localStorage'["theme-mode"])
             /\ JSON_parses(localStorage'["theme-mode"].text)
             /\ JSON_parse(localStorage'["theme-mode"].text) = mode
             /\ themeStorage'.value = mode
             /\ themeRenderOf(themeStorage', systemTheme').theme.mode
                   = (IF mode = SYSTEM THEN systemTheme' ELSE mode)]_vars

\* system was set over a stored dark, under a dark system theme
C24_Witness ==
    /\ mounted = "useTheme"
    /\ themeRendered.value = DARK
    /\ themeStorage.value = SYSTEM
    /\ themeStorage.error = "null"
    /\ localStorage["theme-mode"] = ItemOf(JSON_stringify(SYSTEM))
    /\ systemTheme = DARK

\* C25: the read of a key yields the stored value when an item is present
\* and parses, and the default otherwise (null for the adapter, which takes
\* no default); the read leaves localStorage as it is, also when the parse
\* fails.
C25_ReadOrDefault ==
    [][/\ useThemeEffects =>
            /\ themeStorage'.value =
                  (IF /\ Truthy(localStorage["theme-mode"])
                      /\ JSON_parses(localStorage["theme-mode"].text)
                      THEN JSON_parse(localStorage["theme-mode"].text)
                      ELSE SYSTEM)
            /\ UNCHANGED localStorage
       /\ adapterGetItem =>
            /\ UNCHANGED localStorage
            /\ \E key \in StorageKeys :
                  LET item == localStorage[key] IN
                  /\ got'[key] = (IF item.present /\ item.text # <<>> /\ JSON_parses(item.text)
                                     THEN <<JSON_parse(item.text)>>
                                     ELSE <<>>)
                  /\ \A other \in StorageKeys \ {key} : got'[other] = got[other]]_vars

\* the item under 'theme-mode' is not JSON: the read failed and kept the default
C25_Witness ==
    /\ mounted = "useTheme"
    /\ ~effectsPending
    /\ mounts = 1
    /\ localStorage["theme-mode"] = ItemOf(<<"dark">>)
    /\ themeStorage.value = SYSTEM
    /\ themeStorage.error # "null"
    /\ ~themeStorage.isLoading

\* C26: a setValue whose write fails still completes: the in-memory value
\* is the new value, the error field is set and localStorage is as before;
\* a setValue whose write succeeds leaves the error field null, also after
\* an earlier failure.
C26_WriteFailureContained ==
    [][\A mode \in ThemeMode :
          setTheme(mode) =>
             /\ themeStorage'.value = mode
             /\ \/ /\ themeStorage'.error = "null"
                   /\ localStorage'["theme-mode"] = ItemOf(JSON_stringify(mode))
                \/ /\ themeStorage'.error # "null"
                   /\ UNCHANGED localStorage]_vars

\* dark was chosen in an empty profile and the write failed
C26_Witness ==
    /\ mounted = "useTheme"
    /\ themeStorage.value = DARK
    /\ themeStorage.error # "null"
    /\ localStorage["theme-mode"] = NullItem

\* C27: a value written under a key is the value read back from it, not the
\* default: for the adapter, getItem after a successful setItem returns the
\* value and getItem after removeItem returns null; for useLocalStorage,
\* the read of the JSON text of a value yields that value whatever the
\* default, and a mounted useTheme whose last write succeeded holds the
\* value that the item under 'theme-mode' parses to.
C27_RoundTrip ==
    /\ \A v \in AdapterStrings :
          adapter_getItem(adapter_setItem(localStorage, "theme-mode",
                                          JSON_stringify(v), TRUE), "theme-mode") = <<v>>
    /\ \A n \in AdapterNumbers :
          adapter_getItem(adapter_setItem(localStorage, "counter-value",
                                          JSON_stringifyNumber(n), TRUE), "counter-value") = <<n>>
    /\ \A key \in StorageKeys :
          adapter_getItem(adapter_removeItem(localStorage, key, TRUE), key) = <<>>
    /\ \A v \in ThemeMode : \A default \in ThemeMode :
          readStoredValue(useLocalStorageInitial(default), ItemOf(JSON_stringify(v))).value = v
    /\ (/\ mounted = "useTheme"
        /\ ~effectsPending
        /\ themeStorage.error = "null"
        /\ Truthy(localStorage["theme-mode"])
        /\ JSON_parses(localStorage["theme-mode"].text))
          => themeStorage.value = JSON_parse(localStorage["theme-mode"].text)

\* the second mount of useTheme has read back the light that is in storage
C27_Witness ==
    /\ mounted = "useTheme"
    /\ mounts = 2
    /\ ~effectsPending
    /\ localStorage["theme-mode"] = ItemOf(JSON_stringify(LIGHT))
    /\ themeStorage.value = LIGHT
    /\ themeRendered.value = SYSTEM

\* C28: with enablePersistence false no step of useCounter, the page load
\* included, changes what is stored under 'counter-value'.
C28_NoWriteWhenDisabled ==
    [][~config.enablePersistence =>
          localStorage'["counter-value"] = localStorage["counter-value"]]_vars

\* persistence is off, the counter has moved to 1 and was rendered, and the
\* profile still holds the 2 it held before the page was loaded
C28_Witness ==
    /\ mounted = "useCounter"
    /\ ~torn
    /\ ~config.enablePersistence
    /\ counterState.history # <<>>
    /\ counterState.value = 1
    /\ rendered = 1
    /\ localStorage["counter-value"] = ItemOf(JSON_stringifyNumber(2))

\* the item under 'counter-value' is the JSON text of the current state.value
Persisted == localStorage["counter-value"] = ItemOf(JSON_stringifyNumber(counterState.value))

\* C29: with enablePersistence true, whenever useCounter is mounted the item
\* under 'counter-value' eventually is the current state.value, unless a
\* write failed (the error field reports it); once the re-render has
\* happened and no failure is reported the item is the current value.
C29_EventuallyPersisted ==
    /\ []((mounted = "useCounter" /\ ~torn /\ config.enablePersistence)
            => <>(Persisted \/ counterStorage.error # "null"))
    /\ []((/\ mounted = "useCounter"
           /\ ~torn
           /\ config.enablePersistence
           /\ rendered = counterState.value
           /\ counterStorage.error = "null") => Persisted)

\* a mutation took the counter away from its initial value and was persisted
C29_Witness ==
    /\ mounted = "useCounter"
    /\ ~torn
    /\ config.enablePersistence
    /\ counterState.history # <<>>
    /\ counterState.value # config.initialValue
    /\ counterStorage.error = "null"
    /\ Persisted

\* C30: with enablePersistence true, a page load that finds the JSON text
\* of a number v under 'counter-value' leaves that item as it is and starts
\* the counter at v.
C30_SurvivesReload ==
    [][(/\ mountCounter
        /\ config.enablePersistence
        /\ Truthy(localStorage["counter-value"])
        /\ JSON_parses(localStorage["counter-value"].text)) =>
          /\ localStorage'["counter-value"] = localStorage["counter-value"]
          /\ counterState'.value = JSON_parse(localStorage["counter-value"].text)
          /\ rendered' = counterState'.value]_vars

\* C31: a decrement never increases the value: after a click on Decrement
\* the count of the Counter component is at most the count before it, also
\* when the component was rendered with a negative initial.
C31_DecrementNeverIncreases ==
    [][handleDecrement => count' <= count]_vars

\* C35: the effective theme mode is light or dark, so exactly one of isDark
\* and isLight is true in every render of useTheme, whatever JSON value was
\* found under "theme-mode" at startup.
C35_ExactlyOneOfDarkLight ==
    mounted = "useTheme" =>
        /\ themeRendered.theme.mode \in {LIGHT, DARK}
        /\ themeRendered.isDark # themeRendered.isLight

\* C32: functional updates of useLocalStorage compose: after setValue(f) and
\* then setValue(g) before the next render, the value is g(f(v)), where v is
\* the value before both calls.
C32_UpdatesCompose ==
    (mounted = "useLocalStorage" /\ Len(lsCalls) = 2) =>
        lsState.value = Apply(lsCalls[2], Apply(lsCalls[1], lsClosure))

\* the persisting effect and the re-renders have come to rest
ObsQuiescent == obs.mountDone /\ ~obs.effectsDue /\ cellsOf(obs) = obs.view

\* C33: the persistence observers reach quiescence: after mount and after a
\* dispatch the chain between setValue (re-created when storedValue changes)
\* and the persisting effect makes at most two writes and three re-renders
\* and then stops, in useCounter and in AppProvider's auto-save.
C33_ObserversQuiesce ==
    /\ [](mounted = "persistence" => obs.writes <= 2 /\ obs.renders <= 3)
    /\ [](mounted = "persistence" => <>ObsQuiescent)

C33_Witness ==
    /\ mounted = "persistence"
    /\ obs.root = "AppProvider"
    /\ obs.dispatches > 0
    /\ obs.writes = 2
    /\ obs.renders >= 2
    /\ ObsQuiescent

\* C34: all mounted useTheme instances agree: once the provider's setTheme or
\* toggleTheme has been rendered, the second instance reports the same
\* stored preference and the same effective mode.
C34_InstancesAgree ==
    (/\ mounted = "useTheme"
     /\ ~effectsPending
     /\ ~peer.pending
     /\ themeRendered = themeRenderOf(themeStorage, systemTheme)
     /\ peer.rendered = themeRenderOf(peer.storage, systemTheme))
    => /\ peer.rendered.value = themeRendered.value
       /\ peer.rendered.theme.mode = themeRendered.theme.mode

\* C38: ErrorBoundary with resetOnPropsChange clears its error state on an
\* update only when some element of resetKeys differs from the resetKeys of
\* the previous update: an update with unchanged resetKeys, the first one
\* after the error was caught included, leaves hasError true.
C38_ResetOnlyOnChangedKeys ==
    [][(/\ boundaryUpdate
        /\ boundary.hasError
        /\ boundary'.resetKeys = boundary.resetKeys) => boundary'.hasError]_vars

\* C36: in AsyncErrorBoundary retryCount never exceeds maxRetries, and a
\* handleRetry invoked when retryCount >= maxRetries changes no state, calls
\* no onRetry and schedules no timer.
C36_RetriesBounded ==
    /\ [](mounted = "AsyncErrorBoundary" => retry.retryCount <= retry.maxRetries)
    /\ [][(handleRetry /\ retry.retryCount >= retry.maxRetries) =>
              retry' = [retry EXCEPT !.refused = @ + 1]]_vars

C36_Witness ==
    /\ mounted = "AsyncErrorBoundary"
    /\ retry.maxRetries > 0
    /\ retry.retryCount = retry.maxRetries
    /\ retry.refused > 0

\* C37: after AsyncErrorBoundary is unmounted no retry timer fires and no
\* state update is applied to it, for every interleaving of handleRetry
\* calls, onRetry completion and unmount.
C37_QuietAfterUnmount ==
    mounted = "AsyncErrorBoundary" =>
        ~retry.firedAfterUnmount /\ ~retry.updatedAfterUnmount

\* how many times a listener occurs in a list
Occurrences(list, listener) == Cardinality({i \in 1..Len(list) : list[i] = listener})

\* C39: when GlobalErrorHandler has handled an error, every listener
\* registered when the error arrived has been invoked exactly once per
\* registration, also if a listener threw or removed a listener during the
\* notification; a listener not registered at that moment was not invoked.
C39_EachListenerOnce ==
    (mounted = "GlobalErrorHandler" /\ notifier.handled > 0 /\ ~notifier.notifying) =>
        \A listener \in ListenerIds :
            Occurrences(notifier.invoked, listener) = Occurrences(notifier.snapshot, listener)

\* C40: useAsync reflects the most recently started call: once every
\* invocation of execute has settled, the state holds the data or the error
\* of the last-started invocation and isLoading is false.
C40_LastStartedWins ==
    (mounted = "useAsync" /\ asyncHook.started > 0 /\ asyncHook.pending = {}) =>
        /\ ~asyncHook.state.isLoading
        /\ asyncHook.started \in {asyncHook.state.data, asyncHook.state.error}

====
